---- MODULE Spec2Model ----
(***************************************************************************)
(* Model of the 75 Hard tracker (src/utils.py, src/gamification.py,        *)
(* src/database.py and the pages of src/pages).  The computations are pure *)
(* functions; each is modelled as an operator that follows the Python      *)
(* code, and each function specification below draws a call (function name *)
(* and arguments) in Init and applies the function in one action, leaving  *)
(* the result in ret.  The application specification at the end runs the   *)
(* Daily Tracker and Dashboard pages of several sessions against the       *)
(* store.                                                                  *)
(*                                                                         *)
(* Dates are day numbers (integers); date - timedelta(days=1) is d - 1.    *)
(* Water quantities of a single record are in tenths of a litre.           *)
(***************************************************************************)
EXTENDS Integers, Sequences, FiniteSets, TLC

VARIABLES
    fn,     \* name of the function being called
    args,   \* its arguments, a record
    ret,    \* its result once pc = "return"
    pc,     \* "call" before the function has run, "return" after
    daily_logs,     \* the rows of table daily_logs
    log_id_seq,     \* the last value drawn from the id sequence of daily_logs
    users,          \* xp and level of each row of table users
    achievements,   \* the rows of table achievements
    session,        \* each browser session: the run of its page script
    insert_calls,   \* the insert_achievement calls made, with what each returned
    page_loads,     \* the number of Dashboard runs started
    session_state,  \* st.session_state of each session: user, user_id, display_name
    anonymous_calls \* the store calls a page has made for a session without a user

appvars ==
    <<daily_logs, log_id_seq, users, achievements, session, insert_calls, page_loads,
      session_state, anonymous_calls>>

vars == <<fn, args, ret, pc, appvars>>

Users == {"asha", "ben"}
Sessions == {"s1", "s2"}

\* Python's None in a slot of st.session_state
Unset == "None"

\* None where a row (a dict) is expected
NoRow == [tag |-> "None"]

\* init_session_state: the three slots after the first run of app.py
LoggedOut == [user |-> NoRow, user_id |-> Unset, display_name |-> Unset]

\* a session whose page script is not running
IdleSession(user_id) ==
    [user_id |-> user_id, at |-> "idle", logs |-> <<>>,
     total_xp |-> 0, level_num |-> 0, newly |-> <<>>]

\* the store after the migration: no logs, no badges, xp 0 and level 1
StoreInit ==
    /\ daily_logs = {}
    /\ log_id_seq = 0
    /\ users = [u \in Users |-> [xp |-> 0, level |-> 1]]
    /\ achievements = {}
    /\ insert_calls = {}
    /\ page_loads = 0
    /\ anonymous_calls = {}

\* no page is running while a single function is applied
AppIdle ==
    /\ StoreInit
    /\ session = [s \in Sessions |-> IdleSession("")]
    /\ session_state = [s \in Sessions |-> LoggedOut]

NoResult == [tag |-> "none"]

Called(f) == pc = "call" /\ fn = f
Returned(f) == pc = "return" /\ fn = f

(***************************************************************************)
(* Python values stored in a row or a metrics mapping.                     *)
(***************************************************************************)
PyNone == [tag |-> "None", num |-> 0, str |-> ""]
NaN == [tag |-> "NaN", num |-> 0, str |-> ""]
Num(n) == [tag |-> "num", num |-> n, str |-> ""]
Str(s) == [tag |-> "str", num |-> 0, str |-> s]
\* marks a key that the generated mapping does not contain
Absent == [tag |-> "absent", num |-> 0, str |-> ""]

\* the mapping with the keys marked Absent removed
DropAbsent(full) ==
    [k \in {x \in DOMAIN full : full[x].tag # "absent"} |-> full[k]]

\* dict.get(key): None for a key the mapping lacks
Get(row, key) == IF key \in DOMAIN row THEN row[key] ELSE PyNone

\* Python truth value: None, 0 and "" are false; NaN is a non-zero float
Truthy(v) ==
    CASE v.tag = "None" -> FALSE
      [] v.tag = "num" -> v.num # 0
      [] v.tag = "str" -> v.str # ""
      [] OTHER -> TRUE

\* a or b
PyOr(a, b) == IF Truthy(a) THEN a ELSE b

(***************************************************************************)
(* src/utils.py                                                            *)
(***************************************************************************)
\* float(val): the number, or the exception it raises (TypeError for None,
\* ValueError for a string that is no number)
PyFloat(val) ==
    CASE val.tag = "None" -> [exc |-> "TypeError", nan |-> FALSE, num |-> 0]
      [] val.tag = "num" -> [exc |-> "", nan |-> FALSE, num |-> val.num]
      [] val.tag = "NaN" -> [exc |-> "", nan |-> TRUE, num |-> 0]
      [] OTHER -> [exc |-> "ValueError", nan |-> FALSE, num |-> 0]

Returns(v) == [raised |-> FALSE, value |-> v]
Raises == [raised |-> TRUE, value |-> 0]

\* _to_number with an except clause that names TypeError alone
_to_number_try_typeerror(val, default) ==
    IF val.tag = "None" THEN Returns(default)
    ELSE LET x == PyFloat(val) IN
         IF x.exc = "TypeError" THEN Returns(default)
         ELSE IF x.exc # "" THEN Raises
         ELSE Returns(IF x.nan THEN default ELSE x.num)

\* _to_number, with what it does when float(val) raises: the value it
\* returns, or raised when an exception leaves it
_to_number_try(val, default) ==
    IF val.tag = "None" THEN Returns(default)
    ELSE LET x == PyFloat(val) IN
         IF x.exc \in {"TypeError", "ValueError"} THEN Returns(default)
         ELSE IF x.exc # "" THEN Raises
         ELSE Returns(IF x.nan THEN default ELSE x.num)

\* the value _to_number returns
_to_number(val, default) == _to_number_try(val, default).value

\* 3.0 litres, in tenths of a litre
WATER_MIN_TENTHS == 30
READING_MIN == 10

completion_score_nofallback(row) ==
    LET w1 == Get(row, "workout_1").tag # "None"
        w2 == Get(row, "workout_2").tag # "None"
        water == _to_number(Get(row, "water_intake"), 0) >= WATER_MIN_TENTHS
        reading == _to_number(Get(row, "reading_time"), 0) >= READING_MIN
    IN  w1 /\ w2 /\ water /\ reading

completion_score(row) ==
    LET w1 == PyOr(Get(row, "workout_1"), Get(row, "workout_1_duration")).tag # "None"
        w2 == PyOr(Get(row, "workout_2"), Get(row, "workout_2_duration")).tag # "None"
        water == _to_number(Get(row, "water_intake"), 0) >= WATER_MIN_TENTHS
        reading == _to_number(Get(row, "reading_time"), 0) >= READING_MIN
    IN  w1 /\ w2 /\ water /\ reading

(***************************************************************************)
(* Records handed to completion_score.                                     *)
(***************************************************************************)
WaterSpread == 2
ReadingSpread == 1

LabelValues == {Absent, PyNone, Str(""), Str("Run")}
DurationValues == {Absent, PyNone, NaN, Num(0), Num(30)}
WaterValues ==
    {Absent, PyNone, NaN, Str("abc")}
        \cup {Num(w) : w \in (WATER_MIN_TENTHS - WaterSpread)..(WATER_MIN_TENTHS + WaterSpread)}
ReadingValues ==
    {Absent, PyNone, NaN, Str("abc")}
        \cup {Num(r) : r \in (READING_MIN - ReadingSpread)..(READING_MIN + ReadingSpread)}

Rows ==
    {DropAbsent(full) : full \in
        [workout_1 : LabelValues, workout_1_duration : DurationValues,
         workout_2 : LabelValues, workout_2_duration : DurationValues,
         water_intake : WaterValues, reading_time : ReadingValues]}

\* values handed to _to_number
NumberArgs == (LabelValues \cup DurationValues \cup WaterValues \cup ReadingValues) \ {Absent}

CompletionCalls ==
    {[f |-> "completion_score", a |-> [row |-> r]] : r \in Rows}
    \cup {[f |-> "_to_number", a |-> [val |-> v, default |-> 0]] : v \in NumberArgs}

InitCompletion ==
    /\ \E c \in CompletionCalls : fn = c.f /\ args = c.a
    /\ ret = NoResult
    /\ pc = "call"
    /\ AppIdle

ToNumber ==
    /\ Called("_to_number")
    /\ ret' = _to_number_try(args.val, args.default)
    /\ pc' = "return"
    /\ UNCHANGED <<fn, args, appvars>>

CompletionScore ==
    /\ Called("completion_score")
    /\ ret' = completion_score(args.row)
    /\ pc' = "return"
    /\ UNCHANGED <<fn, args, appvars>>

NextCompletion == CompletionScore \/ ToNumber

SpecCompletion == InitCompletion /\ [][NextCompletion]_vars

\* a value is non-null: the key is there and its value is not None
NonNull(row, key) == Get(row, key).tag # "None"

\* the field coerced as the spec words it: missing or unparseable is 0
Amount(row, key) ==
    LET v == Get(row, key) IN IF v.tag = "num" THEN v.num ELSE 0

\* a workout slot as the code reads it: a non-empty label, or else any
\* duration value other than None (0 and NaN included)
SlotPresent(row, label, duration) ==
    \/ (Get(row, label).tag = "str" /\ Get(row, label).str # "")
    \/ Get(row, duration).tag # "None"

\* C1 (as claimed): completion_score(record) is true iff workout_1 and
\* workout_2 are both non-null and water_intake >= 3.0 and reading_time >= 10.
C1_Claimed ==
    Returned("completion_score") =>
        (ret <=> /\ NonNull(args.row, "workout_1")
                 /\ NonNull(args.row, "workout_2")
                 /\ Amount(args.row, "water_intake") >= WATER_MIN_TENTHS
                 /\ Amount(args.row, "reading_time") >= READING_MIN)

\* C1 (amended): completion_score(record) is true iff each workout slot has
\* a non-empty label or a duration that is not None, and water_intake >= 3.0
\* and reading_time >= 10.
C1_Completion ==
    Returned("completion_score") =>
        (ret <=> /\ SlotPresent(args.row, "workout_1", "workout_1_duration")
                 /\ SlotPresent(args.row, "workout_2", "workout_2_duration")
                 /\ Amount(args.row, "water_intake") >= WATER_MIN_TENTHS
                 /\ Amount(args.row, "reading_time") >= READING_MIN)

\* a record with no workout_1 label but a workout_1 duration scored complete
C1_Witness ==
    /\ Returned("completion_score")
    /\ ret = TRUE
    /\ ~NonNull(args.row, "workout_1")
    /\ NonNull(args.row, "workout_1_duration")

\* a value that is missing, null, NaN or no number
Unusable(v) == v.tag \in {"None", "NaN", "str"}

\* C13: completion_score returns false for every record whose water_intake
\* is missing, null, NaN or non-numeric, and for every record whose
\* reading_time is; _to_number maps every such value to 0 and raises nothing.
C13_MissingAmountFails ==
    /\ (/\ Returned("completion_score")
        /\ \/ Unusable(Get(args.row, "water_intake"))
           \/ Unusable(Get(args.row, "reading_time")))
           => ret = FALSE
    /\ (Returned("_to_number") /\ Unusable(args.val)) => ret = Returns(0)

\* a record with both workouts and enough reading but a non-numeric water
\* value scored incomplete
C13_Witness ==
    /\ Returned("completion_score")
    /\ Get(args.row, "water_intake").tag = "str"
    /\ SlotPresent(args.row, "workout_1", "workout_1_duration")
    /\ SlotPresent(args.row, "workout_2", "workout_2_duration")
    /\ Amount(args.row, "reading_time") >= READING_MIN
    /\ ret = FALSE

\* _to_number has turned a non-numeric string into 0
C13_WitnessToNumber ==
    /\ Returned("_to_number")
    /\ args.val.tag = "str"
    /\ ret = Returns(0)

(***************************************************************************)
(* Streaks (src/utils.py, src/gamification.py).  A list of dates is a      *)
(* sequence of day numbers; today is the value date.today() returns.       *)
(***************************************************************************)
MaxOf(S) == CHOOSE m \in S : \A x \in S : x <= m
MinOf(S) == CHOOSE m \in S : \A x \in S : m <= x

\* set(log_dates)
SetOf(xs) == {xs[i] : i \in DOMAIN xs}

\* sorted(S)
RECURSIVE SortedAsc(_)
SortedAsc(S) ==
    IF S = {} THEN <<>> ELSE <<MinOf(S)>> \o SortedAsc(S \ {MinOf(S)})

\* sorted(S, reverse=True)
RECURSIVE SortedDesc(_)
SortedDesc(S) ==
    IF S = {} THEN <<>> ELSE <<MaxOf(S)>> \o SortedDesc(S \ {MaxOf(S)})

\* sorted(xs, reverse=True) of the list itself, duplicates kept
RECURSIVE SortedDescDup(_)
SortedDescDup(xs) ==
    IF xs = <<>> THEN <<>>
    ELSE LET i == CHOOSE j \in DOMAIN xs : \A k \in DOMAIN xs : xs[k] <= xs[j]
             rest == SubSeq(xs, 1, i - 1) \o SubSeq(xs, i + 1, Len(xs))
         IN  <<xs[i]>> \o SortedDescDup(rest)

\* the for loop of compute_streak, from position i on
RECURSIVE compute_streak_loop(_, _, _, _)
compute_streak_loop(sorted_dates, i, streak, expect) ==
    IF i > Len(sorted_dates) THEN streak
    ELSE IF sorted_dates[i] = expect
         THEN compute_streak_loop(sorted_dates, i + 1, streak + 1, expect - 1)
         ELSE streak

\* compute_streak with sorted(log_dates) in place of sorted(set(log_dates))
compute_streak_nodedup(log_dates, today) ==
    IF log_dates = <<>> THEN 0
    ELSE LET sorted_dates == SortedDescDup(log_dates)
         IN  IF sorted_dates[1] \notin {today, today - 1} THEN 0
             ELSE compute_streak_loop(sorted_dates, 1, 0, today)

compute_streak(log_dates, today) ==
    IF log_dates = <<>> THEN 0
    ELSE LET sorted_dates == SortedDesc(SetOf(log_dates))
         IN  IF sorted_dates[1] \notin {today, today - 1} THEN 0
             ELSE compute_streak_loop(sorted_dates, 1, 0, today)

\* the for loop of longest_streak_in_range, from index i on (1-based)
RECURSIVE longest_streak_in_range_loop(_, _, _, _)
longest_streak_in_range_loop(in_range, i, longest, current) ==
    IF i > Len(in_range) THEN longest
    ELSE LET cur == IF in_range[i] - in_range[i - 1] = 1 THEN current + 1 ELSE 1
             lng == IF cur > longest THEN cur ELSE longest
         IN  longest_streak_in_range_loop(in_range, i + 1, lng, cur)

\* longest_streak_in_range with the window's lower end excluded
longest_streak_in_range_open(log_dates, from_date, to_date) ==
    IF log_dates = <<>> THEN 0
    ELSE LET in_range ==
                 SortedAsc({d \in SetOf(log_dates) : from_date < d /\ d <= to_date})
         IN  IF in_range = <<>> THEN 0
             ELSE longest_streak_in_range_loop(in_range, 2, 1, 1)

longest_streak_in_range(log_dates, from_date, to_date) ==
    IF log_dates = <<>> THEN 0
    ELSE LET in_range ==
                 SortedAsc({d \in SetOf(log_dates) : from_date <= d /\ d <= to_date})
         IN  IF in_range = <<>> THEN 0
             ELSE longest_streak_in_range_loop(in_range, 2, 1, 1)

\* the for loop of _longest_streak_all, from index i on (1-based)
RECURSIVE _longest_streak_all_loop(_, _, _, _)
_longest_streak_all_loop(sorted_dates, i, longest, current) ==
    IF i > Len(sorted_dates) THEN longest
    ELSE LET cur == IF sorted_dates[i] - sorted_dates[i - 1] = 1 THEN current + 1 ELSE 1
             lng == IF cur > longest THEN cur ELSE longest
         IN  _longest_streak_all_loop(sorted_dates, i + 1, lng, cur)

\* _longest_streak_all scanning the dates newest first, as the store
\* returns them, instead of sorted ascending
_longest_streak_all_newest_first(log_dates) ==
    IF log_dates = <<>> THEN 0
    ELSE _longest_streak_all_loop(SortedDesc(SetOf(log_dates)), 2, 1, 1)

_longest_streak_all(log_dates) ==
    IF log_dates = <<>> THEN 0
    ELSE _longest_streak_all_loop(SortedAsc(SetOf(log_dates)), 2, 1, 1)

(***************************************************************************)
(* Date lists handed to the streak functions: every list of at most        *)
(* MaxLen dates, and every set of dates as an ascending list, as a         *)
(* descending list (the order the store returns) and as a list that holds  *)
(* every date twice.                                                       *)
(***************************************************************************)
MaxDay == 5
MaxLen == 2

Days == 0..MaxDay

ShortLists == UNION {[1..n -> Days] : n \in 0..MaxLen}

DateLists ==
    ShortLists
        \cup {SortedAsc(S) : S \in SUBSET Days}
        \cup {SortedDesc(S) : S \in SUBSET Days}
        \cup {SortedDesc(S) \o SortedAsc(S) : S \in SUBSET Days}

Todays == (MaxDay - 1)..MaxDay

StreakCalls ==
    {[f |-> "compute_streak", a |-> [log_dates |-> xs, today |-> t]] :
        xs \in DateLists, t \in Todays}
    \cup
    {[f |-> "longest_streak_in_range",
      a |-> [log_dates |-> xs, from_date |-> lo, to_date |-> hi]] :
        xs \in DateLists, lo \in Days, hi \in Days}
    \cup
    {[f |-> "_longest_streak_all", a |-> [log_dates |-> xs]] : xs \in DateLists}

InitStreak ==
    /\ \E c \in StreakCalls : fn = c.f /\ args = c.a
    /\ ret = NoResult
    /\ pc = "call"
    /\ AppIdle

ComputeStreak ==
    /\ Called("compute_streak")
    /\ ret' = compute_streak(args.log_dates, args.today)
    /\ pc' = "return"
    /\ UNCHANGED <<fn, args, appvars>>

LongestStreakInRange ==
    /\ Called("longest_streak_in_range")
    /\ ret' = longest_streak_in_range(args.log_dates, args.from_date, args.to_date)
    /\ pc' = "return"
    /\ UNCHANGED <<fn, args, appvars>>

LongestStreakAll ==
    /\ Called("_longest_streak_all")
    /\ ret' = _longest_streak_all(args.log_dates)
    /\ pc' = "return"
    /\ UNCHANGED <<fn, args, appvars>>

NextStreak == ComputeStreak \/ LongestStreakInRange \/ LongestStreakAll

SpecStreak == InitStreak /\ [][NextStreak]_vars

\* the number of days of the run of consecutive dates of S that ends at e
RunEndingAt(S, e) ==
    IF e \notin S THEN 0
    ELSE CHOOSE k \in 1..Cardinality(S) :
             /\ \A j \in 0..(k - 1) : (e - j) \in S
             /\ (e - k) \notin S

\* the length of the longest run of consecutive dates of S
LongestRun(S) ==
    IF S = {} THEN 0
    ELSE MaxOf({RunEndingAt(S, e) : e \in {x \in S : (x + 1) \notin S}})

NoFutureDate(S, today) == \A d \in S : d <= today

\* C2 (as claimed): with yesterday logged and today not (no date after
\* today), compute_streak returns the length of the run of consecutive
\* logged days that ends yesterday, which is at least 1.
C2_YesterdayKeepsStreak ==
    Returned("compute_streak") =>
        LET S == SetOf(args.log_dates) IN
        ((args.today - 1) \in S /\ args.today \notin S /\ NoFutureDate(S, args.today))
            => (ret = RunEndingAt(S, args.today - 1) /\ ret >= 1)

\* C3: with no date after today, compute_streak returns 0 for an empty list
\* and when the latest date is more than one day before today, and returns
\* k when today, today-1, ..., today-(k-1) are logged and today-k is not.
C3_CurrentStreak ==
    Returned("compute_streak") =>
        LET S == SetOf(args.log_dates) IN
        NoFutureDate(S, args.today) =>
            /\ (S = {} => ret = 0)
            /\ (S # {} /\ MaxOf(S) < args.today - 1 => ret = 0)
            /\ (args.today \in S => ret = RunEndingAt(S, args.today))

\* {today, today-1, today-2} given as a list with repeated dates gives 3
C3_Witness ==
    /\ Returned("compute_streak")
    /\ SetOf(args.log_dates) = {args.today, args.today - 1, args.today - 2}
    /\ Len(args.log_dates) > 3
    /\ ret = 3

\* a list whose latest date is two days before today gives 0
C3_WitnessStale ==
    /\ Returned("compute_streak")
    /\ SetOf(args.log_dates) = {args.today - 2}
    /\ ret = 0

\* C7: longest_streak_in_range returns the length of the longest run of
\* consecutive dates among the listed dates d with from <= d <= to (0 when
\* none falls in the window, 1 for a single date), whatever the order of the
\* list and however often a date is repeated.
C7_LongestInRange ==
    Returned("longest_streak_in_range") =>
        ret = LongestRun({d \in SetOf(args.log_dates) :
                              args.from_date <= d /\ d <= args.to_date})

\* {d0, d0+1, d0+3, d0+4, d0+5} over the full range gives 3
C7_Witness ==
    /\ Returned("longest_streak_in_range")
    /\ SetOf(args.log_dates) = {0, 1, 3, 4, 5}
    /\ args.from_date = 0 /\ args.to_date = 5
    /\ ret = 3

\* C20: for every non-empty list of dates, _longest_streak_all(dates)
\* equals longest_streak_in_range(dates, min(dates), max(dates)).
C20_AllEqualsFullRange ==
    (Returned("_longest_streak_all") /\ args.log_dates # <<>>) =>
        ret = longest_streak_in_range(args.log_dates,
                                      MinOf(SetOf(args.log_dates)),
                                      MaxOf(SetOf(args.log_dates)))

\* a list with repeated dates, newest first then oldest first, whose best
\* run of 3 is not its whole span
C20_Witness ==
    /\ Returned("_longest_streak_all")
    /\ SetOf(args.log_dates) = {0, 1, 3, 4, 5}
    /\ Len(args.log_dates) = 10
    /\ ret = 3

(***************************************************************************)
(* XP and levels (src/gamification.py).                                    *)
(***************************************************************************)
XP_PER_DAY_LOGGED == 10
XP_PER_FULL_DAY == 50
XP_BONUS_7_STREAK == 100
XP_BONUS_30_STREAK == 500

LEVEL_TITLES ==
    << [lo |-> 1, hi |-> 5, title |-> "Beginner"],
       [lo |-> 6, hi |-> 10, title |-> "Committed"],
       [lo |-> 11, hi |-> 20, title |-> "Champion"],
       [lo |-> 21, hi |-> 99, title |-> "Legend"] >>

\* xp_for_level with the first tier counted from level 0
xp_for_level_offbyone(level) ==
    IF level <= 0 THEN 0
    ELSE IF level = 1 THEN 0
    ELSE IF level <= 5 THEN level * 100
    ELSE IF level <= 10 THEN 500 + (level - 6) * 200
    ELSE IF level <= 20 THEN 1500 + (level - 11) * 350
    ELSE 5000 + (IF level - 21 > 0 THEN level - 21 ELSE 0) * 500

\* xp_for_level with the Champion tier starting where the Committed tier ends
xp_for_level_flat(level) ==
    IF level <= 0 THEN 0
    ELSE IF level = 1 THEN 0
    ELSE IF level <= 5 THEN (level - 1) * 100
    ELSE IF level <= 10 THEN 500 + (level - 6) * 200
    ELSE IF level <= 20 THEN 1300 + (level - 11) * 350
    ELSE 5000 + (IF level - 21 > 0 THEN level - 21 ELSE 0) * 500

xp_for_level(level) ==
    IF level <= 0 THEN 0
    ELSE IF level = 1 THEN 0
    ELSE IF level <= 5 THEN (level - 1) * 100
    ELSE IF level <= 10 THEN 500 + (level - 6) * 200
    ELSE IF level <= 20 THEN 1500 + (level - 11) * 350
    ELSE 5000 + (IF level - 21 > 0 THEN level - 21 ELSE 0) * 500

\* the while loop of get_level
RECURSIVE get_level_loop(_, _)
get_level_loop(level, xp) ==
    IF level < 100 /\ xp >= xp_for_level(level + 1)
    THEN get_level_loop(level + 1, xp)
    ELSE level

\* the title lookup of get_level: the first range of LEVEL_TITLES that
\* holds the level, "Legend" when none does
get_level_title(level) ==
    LET hits == {i \in DOMAIN LEVEL_TITLES :
                     LEVEL_TITLES[i].lo <= level /\ level <= LEVEL_TITLES[i].hi}
    IN  IF hits = {} THEN "Legend" ELSE LEVEL_TITLES[MinOf(hits)].title

\* get_level with the next level reached only above its threshold
RECURSIVE get_level_strict_loop(_, _)
get_level_strict_loop(level, xp) ==
    IF level < 100 /\ xp > xp_for_level(level + 1)
    THEN get_level_strict_loop(level + 1, xp)
    ELSE level

get_level_strict(xp) ==
    LET level == get_level_strict_loop(1, xp) IN <<level, get_level_title(level)>>

get_level(xp) ==
    LET level == get_level_loop(1, xp) IN <<level, get_level_title(level)>>

\* xp_progress_in_level that reports the total XP and the next threshold
xp_progress_in_level_totals(xp) ==
    LET level == get_level(xp)[1]
        next_base == xp_for_level(level + 1)
    IN  <<xp, next_base, level>>

xp_progress_in_level(xp) ==
    LET level == get_level(xp)[1]
        base == xp_for_level(level)
        next_base == xp_for_level(level + 1)
    IN  <<xp - base, next_base - base, level>>

(***************************************************************************)
(* Levels and XP totals handed to xp_for_level and get_level.              *)
(***************************************************************************)
LevelsBelow == 2
MaxLevelArg == 101
XpStep == 50
MaxXpSteps == 900

LevelArgs == (0 - LevelsBelow)..MaxLevelArg

\* every multiple of XpStep up to XpStep * MaxXpSteps, and its neighbours
XpArgs ==
    {x \in {XpStep * k + j : k \in 0..MaxXpSteps, j \in {-1, 0, 1}} : x >= 0}

LevelCalls ==
    {[f |-> "xp_for_level", a |-> [level |-> l]] : l \in LevelArgs}
    \cup {[f |-> "get_level", a |-> [xp |-> x]] : x \in XpArgs}
    \cup {[f |-> "xp_progress_in_level", a |-> [xp |-> x]] : x \in XpArgs}

InitLevel ==
    /\ \E c \in LevelCalls : fn = c.f /\ args = c.a
    /\ ret = NoResult
    /\ pc = "call"
    /\ AppIdle

XpForLevel ==
    /\ Called("xp_for_level")
    /\ ret' = xp_for_level(args.level)
    /\ pc' = "return"
    /\ UNCHANGED <<fn, args, appvars>>

GetLevel ==
    /\ Called("get_level")
    /\ ret' = get_level(args.xp)
    /\ pc' = "return"
    /\ UNCHANGED <<fn, args, appvars>>

XpProgressInLevel ==
    /\ Called("xp_progress_in_level")
    /\ ret' = xp_progress_in_level(args.xp)
    /\ pc' = "return"
    /\ UNCHANGED <<fn, args, appvars>>

NextLevel == XpForLevel \/ GetLevel \/ XpProgressInLevel

SpecLevel == InitLevel /\ [][NextLevel]_vars

\* C4 (as claimed): for every xp >= 0, get_level(xp) returns the largest
\* level L in 1..99 with xp >= xp_for_level(L); it never exceeds 99.
C4_LevelCappedAt99 ==
    Returned("get_level") =>
        /\ ret[1] \in 1..99
        /\ args.xp >= xp_for_level(ret[1])
        /\ \A l \in 1..99 : args.xp >= xp_for_level(l) => l <= ret[1]

\* C9: xp_for_level(L) is 0 for L <= 1, (L-1)*100 for 2 <= L <= 5,
\* 500+(L-6)*200 for 6 <= L <= 10, 1500+(L-11)*350 for 11 <= L <= 20 and
\* 5000+(L-21)*500 for L > 20.
C9_Thresholds ==
    Returned("xp_for_level") =>
        LET l == args.level IN
        /\ (l <= 1 => ret = 0)
        /\ (2 <= l /\ l <= 5 => ret = (l - 1) * 100)
        /\ (6 <= l /\ l <= 10 => ret = 500 + (l - 6) * 200)
        /\ (11 <= l /\ l <= 20 => ret = 1500 + (l - 11) * 350)
        /\ (l > 20 => ret = 5000 + (l - 21) * 500)

\* the threshold of a level of the last tier has been computed
C9_Witness ==
    /\ Returned("xp_for_level")
    /\ args.level = 99
    /\ ret = 44000

\* C10: for adjacent levels L, L+1 with 1 <= L < 99 the thresholds are
\* strictly increasing: xp_for_level(L) < xp_for_level(L+1).
C10_StrictlyIncreasing ==
    Returned("xp_for_level") /\ 1 <= args.level /\ args.level < 99
        => ret < xp_for_level(args.level + 1)

\* the threshold of level 10, the last of its tier, lies below that of 11
C10_Witness ==
    /\ Returned("xp_for_level")
    /\ args.level = 10
    /\ ret = 1300
    /\ xp_for_level(11) = 1500

\* C19: for every xp >= 0, xp_progress_in_level(xp) returns
\* (xp - xp_for_level(L), xp_for_level(L+1) - xp_for_level(L), L) where L is
\* the level get_level(xp) returns.
C19_ProgressTriple ==
    Returned("xp_progress_in_level") =>
        LET L == get_level(args.xp)[1] IN
        /\ ret[3] = L
        /\ ret[1] = args.xp - xp_for_level(L)
        /\ ret[2] = xp_for_level(L + 1) - xp_for_level(L)

\* 1450 XP is 150 XP into level 10, whose span is 200 XP
C19_Witness ==
    /\ Returned("xp_progress_in_level")
    /\ args.xp = 1450
    /\ ret = <<150, 200, 10>>

\* the progress triple as claimed for every xp >= 0
C23_Claimed ==
    Returned("xp_progress_in_level") =>
        /\ 0 <= ret[1]
        /\ ret[1] < ret[2]
        /\ ret[2] > 0

\* C23: for every xp >= 0 the progress triple of xp_progress_in_level has
\* xpIntoLevel >= 0 and xpNeededForLevel > 0, and for every xp below the
\* threshold of level 100 (44500) also xpIntoLevel < xpNeededForLevel.
C23_ProgressWithinLevel ==
    Returned("xp_progress_in_level") =>
        /\ 0 <= ret[1]
        /\ ret[2] > 0
        /\ args.xp < xp_for_level(100) => ret[1] < ret[2]

\* one XP short of the threshold of level 100
C23_Witness ==
    /\ Returned("xp_progress_in_level")
    /\ args.xp = 44499
    /\ ret = <<499, 500, 99>>

\* at 45000 XP the level stays 100 and its span of 500 XP is used up
C23_WitnessFull ==
    /\ Returned("xp_progress_in_level")
    /\ args.xp = 45000
    /\ ret = <<500, 500, 100>>

(***************************************************************************)
(* calculate_xp (src/gamification.py).                                     *)
(***************************************************************************)
\* a log_date value: a date, a datetime (seconds since day 0) or an ISO
\* string whose first ten characters are the date
DateValue(day) == [kind |-> "date", day |-> day, secs |-> 0, rest |-> ""]
DateTimeValue(day, s) ==
    [kind |-> "datetime", day |-> 0, secs |-> day * 86400 + s, rest |-> ""]
IsoValue(day, tail) == [kind |-> "str", day |-> day, secs |-> 0, rest |-> tail]

\* a date as it is; datetime.date(); date.fromisoformat(str(d)[:10])
_to_date(d) ==
    CASE d.kind = "date" -> d.day
      [] d.kind = "datetime" -> d.secs \div 86400
      [] OTHER -> d.day

\* calculate_xp with the 30-day bonus replacing the 7-day bonus
calculate_xp_elif(logs, full_completion_count) ==
    IF logs = <<>> THEN 0
    ELSE LET days_logged == Len(logs)
             log_dates == [i \in DOMAIN logs |-> _to_date(logs[i].log_date)]
             best_streak == _longest_streak_all(log_dates)
             xp == days_logged * XP_PER_DAY_LOGGED
                       + full_completion_count * XP_PER_FULL_DAY
         IN  IF best_streak >= 30 THEN xp + XP_BONUS_30_STREAK
             ELSE IF best_streak >= 7 THEN xp + XP_BONUS_7_STREAK
             ELSE xp

\* calculate_xp that gives the 7-day bonus for a best streak of exactly 7
calculate_xp_exact7(logs, full_completion_count) ==
    IF logs = <<>> THEN 0
    ELSE LET days_logged == Len(logs)
             log_dates == [i \in DOMAIN logs |-> _to_date(logs[i].log_date)]
             best_streak == _longest_streak_all(log_dates)
             xp0 == days_logged * XP_PER_DAY_LOGGED
                        + full_completion_count * XP_PER_FULL_DAY
             xp1 == IF best_streak >= 30 THEN xp0 + XP_BONUS_30_STREAK ELSE xp0
         IN  IF best_streak = 7 THEN xp1 + XP_BONUS_7_STREAK ELSE xp1

\* calculate_xp without the early return for an empty list
calculate_xp_noguard(logs, full_completion_count) ==
    LET days_logged == Len(logs)
        log_dates == [i \in DOMAIN logs |-> _to_date(logs[i].log_date)]
        best_streak == _longest_streak_all(log_dates)
        xp0 == days_logged * XP_PER_DAY_LOGGED
                   + full_completion_count * XP_PER_FULL_DAY
        xp1 == IF best_streak >= 30 THEN xp0 + XP_BONUS_30_STREAK ELSE xp0
    IN  IF best_streak >= 7 THEN xp1 + XP_BONUS_7_STREAK ELSE xp1

calculate_xp(logs, full_completion_count) ==
    IF logs = <<>> THEN 0
    ELSE LET days_logged == Len(logs)
             log_dates == [i \in DOMAIN logs |-> _to_date(logs[i].log_date)]
             best_streak == _longest_streak_all(log_dates)
             xp0 == days_logged * XP_PER_DAY_LOGGED
                        + full_completion_count * XP_PER_FULL_DAY
             xp1 == IF best_streak >= 30 THEN xp0 + XP_BONUS_30_STREAK ELSE xp0
         IN  IF best_streak >= 7 THEN xp1 + XP_BONUS_7_STREAK ELSE xp1

(***************************************************************************)
(* Log lists handed to calculate_xp: a run of m consecutive days from day  *)
(* 0, then g unlogged days, then a run of n consecutive days; newest first *)
(* with date values (the order and type the store returns), oldest first   *)
(* with datetime values, or every day twice with ISO strings.              *)
(***************************************************************************)
MaxRun == 31
MaxSecondRun == 8
MaxGap == 2
MaxFullCount == 2

\* the i-th day, oldest first, of the two runs
RunDay(m, g, n, i) == IF i <= m THEN i - 1 ELSE (i - 1) + g

NewestFirst(m, g, n) ==
    [i \in 1..(m + n) |-> [log_date |-> DateValue(RunDay(m, g, n, m + n + 1 - i))]]

OldestFirst(m, g, n) ==
    [i \in 1..(m + n) |-> [log_date |-> DateTimeValue(RunDay(m, g, n, i), 3600 * i)]]

TwiceIso(m, g, n) ==
    [i \in 1..(2 * (m + n)) |->
        [log_date |-> IsoValue(RunDay(m, g, n, IF i <= m + n THEN i ELSE i - (m + n)),
                               "T00:00:00")]]

XpLogs ==
    UNION {{NewestFirst(m, g, n), OldestFirst(m, g, n), TwiceIso(m, g, n)} :
               m \in 0..MaxRun, g \in 1..MaxGap, n \in 0..MaxSecondRun}

\* run lengths around the two streak bonuses, for pairs of inputs
PairRuns == {0, 1} \cup {t + j : t \in {7, 30}, j \in {-1, 0, 1}}
PairSecondRuns == {0, 1, 7}

PairInputs ==
    {[logs |-> NewestFirst(m, 1, n), full_completion_count |-> c] :
        m \in PairRuns, n \in PairSecondRuns, c \in 0..MaxFullCount}

\* the latest day of a log list (0 for the empty list)
LastDay(logs) == MaxOf({0} \cup {_to_date(logs[i].log_date) : i \in DOMAIN logs})

\* today, counted from the latest logged day: the day before it to two
\* days after it
TodayOffsets == {-1, 0, 1, 2}

XpCalls ==
    {[f |-> "calculate_xp", a |-> [logs |-> l, full_completion_count |-> c]] :
        l \in XpLogs, c \in 0..MaxFullCount}
    \cup {[f |-> "calculate_xp twice", a |-> [first |-> x, second |-> y]] :
              x \in PairInputs, y \in PairInputs}
    \cup {[f |-> "streaks and calculate_xp",
           a |-> [logs |-> l, today |-> LastDay(l) + t, full_completion_count |-> 0]] :
              l \in XpLogs, t \in TodayOffsets}

InitXp ==
    /\ \E c \in XpCalls : fn = c.f /\ args = c.a
    /\ ret = NoResult
    /\ pc = "call"
    /\ AppIdle

\* calculate_xp applied to each of two inputs
CalculateXpTwice ==
    /\ Called("calculate_xp twice")
    /\ ret' = <<calculate_xp(args.first.logs, args.first.full_completion_count),
                calculate_xp(args.second.logs, args.second.full_completion_count)>>
    /\ pc' = "return"
    /\ UNCHANGED <<fn, args, appvars>>

\* the current streak, the best streak and the XP of the same logs:
\* compute_streak and _longest_streak_all of the log dates, calculate_xp
StreaksAndXp ==
    /\ Called("streaks and calculate_xp")
    /\ LET log_dates == [i \in DOMAIN args.logs |-> _to_date(args.logs[i].log_date)]
       IN  ret' = [streak |-> compute_streak(log_dates, args.today),
                   best_streak |-> _longest_streak_all(log_dates),
                   xp |-> calculate_xp(args.logs, args.full_completion_count)]
    /\ pc' = "return"
    /\ UNCHANGED <<fn, args, appvars>>

CalculateXp ==
    /\ Called("calculate_xp")
    /\ ret' = calculate_xp(args.logs, args.full_completion_count)
    /\ pc' = "return"
    /\ UNCHANGED <<fn, args, appvars>>

NextXp == CalculateXp \/ CalculateXpTwice \/ StreaksAndXp

SpecXp == InitXp /\ [][NextXp]_vars

\* the calendar day of a log_date value
DayOf(d) == IF d.kind = "datetime" THEN d.secs \div 86400 ELSE d.day

LoggedDays(logs) == {DayOf(logs[i].log_date) : i \in DOMAIN logs}

C6_WitnessExample ==
    /\ Returned("calculate_xp")
    /\ Len(args.logs) = 10
    /\ args.full_completion_count = 2
    /\ LongestRun(LoggedDays(args.logs)) = 8
    /\ ret = 300

\* C15: calculate_xp is monotonically non-decreasing: when the number of
\* days logged, the full-completion count and the best-ever streak of a
\* second input are each >= those of a first, the second's XP is >= the
\* first's.
C15_XpMonotone ==
    Returned("calculate_xp twice") =>
        LET a == args.first
            b == args.second
        IN  (/\ Len(a.logs) <= Len(b.logs)
             /\ a.full_completion_count <= b.full_completion_count
             /\ LongestRun(LoggedDays(a.logs)) <= LongestRun(LoggedDays(b.logs)))
                => ret[1] <= ret[2]

\* a list and the same list with one more day, which brings the best
\* streak to 7: the XP went up by the day and the bonus
C15_Witness ==
    /\ Returned("calculate_xp twice")
    /\ LoggedDays(args.first.logs) \subseteq LoggedDays(args.second.logs)
    /\ Len(args.second.logs) = Len(args.first.logs) + 1
    /\ args.first.full_completion_count = args.second.full_completion_count
    /\ LongestRun(LoggedDays(args.first.logs)) = 6
    /\ LongestRun(LoggedDays(args.second.logs)) = 7
    /\ ret[2] = ret[1] + 110

C24_WitnessOlderRun ==
    /\ Returned("streaks and calculate_xp")
    /\ ret.streak = 2
    /\ ret.best_streak = 7
    /\ Cardinality(LoggedDays(args.logs)) = 9

(***************************************************************************)
(* Leaderboard points (src/gamification.py).  total_water_L is held in     *)
(* tenths of a litre, so water_L * POINTS_PER_LITER_WATER is               *)
(* (tenths * POINTS_PER_LITER_WATER) / 10, and int() drops its fraction.   *)
(***************************************************************************)
POINTS_PER_DAY_LOGGED == 10
POINTS_PER_STREAK_DAY == 15
POINTS_PER_FULL_DAY == 50
POINTS_PER_100_WORKOUT_MIN == 10
POINTS_PER_LITER_WATER == 5
POINTS_PER_10_READING_MIN == 5

\* metrics.get(key, default)
GetOr(metrics, key, default) ==
    IF key \in DOMAIN metrics THEN metrics[key] ELSE default

\* calculate_points with the water total floored to whole litres first
calculate_points_whole_litres(metrics) ==
    LET days == GetOr(metrics, "days_logged", 0)
        streak == GetOr(metrics, "streak", 0)
        full == GetOr(metrics, "full_completion_days", 0)
        workout_min == GetOr(metrics, "total_workout_min", 0)
        water_tenths == GetOr(metrics, "total_water_L", 0)
        reading_min == GetOr(metrics, "total_reading_min", 0)
    IN  days * POINTS_PER_DAY_LOGGED
            + streak * POINTS_PER_STREAK_DAY
            + full * POINTS_PER_FULL_DAY
            + (workout_min \div 100) * POINTS_PER_100_WORKOUT_MIN
            + (water_tenths \div 10) * POINTS_PER_LITER_WATER
            + (reading_min \div 10) * POINTS_PER_10_READING_MIN

calculate_points(metrics) ==
    LET days == GetOr(metrics, "days_logged", 0)
        streak == GetOr(metrics, "streak", 0)
        full == GetOr(metrics, "full_completion_days", 0)
        workout_min == GetOr(metrics, "total_workout_min", 0)
        water_tenths == GetOr(metrics, "total_water_L", 0)
        reading_min == GetOr(metrics, "total_reading_min", 0)
    IN  days * POINTS_PER_DAY_LOGGED
            + streak * POINTS_PER_STREAK_DAY
            + full * POINTS_PER_FULL_DAY
            + (workout_min \div 100) * POINTS_PER_100_WORKOUT_MIN
            + ((water_tenths * POINTS_PER_LITER_WATER) \div 10)
            + (reading_min \div 10) * POINTS_PER_10_READING_MIN

(***************************************************************************)
(* Metrics bundles handed to calculate_points: non-negative values, the    *)
(* workout total in steps of 50 minutes, the water total in steps of 0.5   *)
(* litre (the Daily Tracker's step), the reading total in steps of 5       *)
(* minutes.                                                                *)
(***************************************************************************)
MaxDaysLogged == 5
MaxStreakArg == 3
MaxFullDays == 1
MaxWorkoutSteps == 5
MaxWaterHalves == 25
MaxReadingSteps == 9

PointsMetrics ==
    [days_logged : 0..MaxDaysLogged,
     streak : 0..MaxStreakArg,
     full_completion_days : 0..MaxFullDays,
     total_workout_min : {50 * k : k \in 0..MaxWorkoutSteps},
     total_water_L : {5 * k : k \in 0..MaxWaterHalves},
     total_reading_min : {5 * k : k \in 0..MaxReadingSteps}]

InitPoints ==
    /\ fn = "calculate_points"
    /\ args \in {[metrics |-> mt] : mt \in PointsMetrics}
    /\ ret = NoResult
    /\ pc = "call"
    /\ AppIdle

CalculatePoints ==
    /\ Called("calculate_points")
    /\ ret' = calculate_points(args.metrics)
    /\ pc' = "return"
    /\ UNCHANGED <<fn, args, appvars>>

NextPoints == CalculatePoints

SpecPoints == InitPoints /\ [][NextPoints]_vars

\* C5 (as claimed): calculate_points returns 10*daysLogged + 15*streak
\* + 50*fullCompletionDays + 10*floor(totalWorkoutMin/100)
\* + 5*floor(totalWaterL) + 5*floor(totalReadingMin/10).
C5_Claimed ==
    Returned("calculate_points") =>
        LET mt == args.metrics IN
        ret = 10 * mt.days_logged + 15 * mt.streak + 50 * mt.full_completion_days
                  + 10 * (mt.total_workout_min \div 100)
                  + 5 * (mt.total_water_L \div 10)
                  + 5 * (mt.total_reading_min \div 10)

\* C5 (amended): calculate_points returns 10*daysLogged + 15*streak
\* + 50*fullCompletionDays + 10*floor(totalWorkoutMin/100)
\* + floor(5*totalWaterL) + 5*floor(totalReadingMin/10).
C5_Points ==
    Returned("calculate_points") =>
        LET mt == args.metrics IN
        ret = 10 * mt.days_logged + 15 * mt.streak + 50 * mt.full_completion_days
                  + 10 * (mt.total_workout_min \div 100)
                  + ((5 * mt.total_water_L) \div 10)
                  + 5 * (mt.total_reading_min \div 10)

\* the bundle {5 days, streak 3, 1 full day, 250 min, 12.5 L, 45 min} scores 247
C5_Witness ==
    /\ Returned("calculate_points")
    /\ args.metrics = [days_logged |-> 5, streak |-> 3, full_completion_days |-> 1,
                       total_workout_min |-> 250, total_water_L |-> 125,
                       total_reading_min |-> 45]
    /\ ret = 247

(***************************************************************************)
(* Badges (src/gamification.py).  A metrics value is Num(n) or None; a     *)
(* metrics mapping may lack keys.  total_water_L is in whole litres here.  *)
(***************************************************************************)
BADGE_CRITERIA ==
    << [badge_type |-> "first_step", threshold |-> 1, key |-> "days_logged"],
       [badge_type |-> "week_warrior", threshold |-> 7, key |-> "streak"],
       [badge_type |-> "month_master", threshold |-> 30, key |-> "streak"],
       [badge_type |-> "hydration_hero", threshold |-> 100, key |-> "total_water_L"],
       [badge_type |-> "reading_rookie", threshold |-> 600, key |-> "total_reading_min"],
       [badge_type |-> "workout_wonder", threshold |-> 1000, key |-> "total_workout_min"],
       [badge_type |-> "perfect_week", threshold |-> 7, key |-> "full_completion_streak"],
       [badge_type |-> "75_hard_complete", threshold |-> 75, key |-> "days_logged"] >>

\* value = metrics.get(key, 0); if value is None: value = 0
MetricValue(metrics, key) ==
    LET value == GetOr(metrics, key, Num(0))
    IN  IF value.tag = "None" THEN 0 ELSE value.num

\* the for loop of check_achievements, from rule i on
RECURSIVE check_achievements_loop(_, _, _, _)
check_achievements_loop(metrics, already_earned, i, newly_earned) ==
    IF i > Len(BADGE_CRITERIA) THEN newly_earned
    ELSE LET rule == BADGE_CRITERIA[i] IN
         IF rule.badge_type \in already_earned
         THEN check_achievements_loop(metrics, already_earned, i + 1, newly_earned)
         ELSE IF MetricValue(metrics, rule.key) >= rule.threshold
              THEN check_achievements_loop(metrics, already_earned, i + 1,
                                           Append(newly_earned, rule.badge_type))
              ELSE check_achievements_loop(metrics, already_earned, i + 1, newly_earned)

\* check_achievements that does not look at already_earned
check_achievements_all(metrics, already_earned) ==
    check_achievements_loop(metrics, {}, 1, <<>>)

check_achievements(metrics, already_earned) ==
    check_achievements_loop(metrics, already_earned, 1, <<>>)

(***************************************************************************)
(* Metrics and earned sets handed to check_achievements: each metric just  *)
(* below its lowest threshold or at one of its thresholds; then all keys   *)
(* kept, one key dropped, one key set to None, or one key kept alone.      *)
(***************************************************************************)
MaxEarned == 2

MetricKeys == {BADGE_CRITERIA[i].key : i \in DOMAIN BADGE_CRITERIA}
BadgeTypes == {BADGE_CRITERIA[i].badge_type : i \in DOMAIN BADGE_CRITERIA}

ThresholdsOf(key) ==
    {BADGE_CRITERIA[i].threshold : i \in {j \in DOMAIN BADGE_CRITERIA :
                                              BADGE_CRITERIA[j].key = key}}

MetricChoices(key) ==
    {Num(MinOf(ThresholdsOf(key)) - 1)} \cup {Num(t) : t \in ThresholdsOf(key)}

FullMetrics ==
    [days_logged : MetricChoices("days_logged"),
     streak : MetricChoices("streak"),
     total_water_L : MetricChoices("total_water_L"),
     total_reading_min : MetricChoices("total_reading_min"),
     total_workout_min : MetricChoices("total_workout_min"),
     full_completion_streak : MetricChoices("full_completion_streak")]

BadgeMetrics ==
    FullMetrics
    \cup {[k \in MetricKeys \ {gone} |-> mt[k]] : mt \in FullMetrics, gone \in MetricKeys}
    \cup {[mt EXCEPT ![k] = PyNone] : mt \in FullMetrics, k \in MetricKeys}
    \cup {[k \in {only} |-> mt[k]] : mt \in FullMetrics, only \in MetricKeys}

EarnedSets == {E \in SUBSET BadgeTypes : Cardinality(E) <= MaxEarned}

InitBadges ==
    /\ fn = "check_achievements"
    /\ args \in {[metrics |-> mt, already_earned |-> E] :
                     mt \in BadgeMetrics, E \in EarnedSets}
    /\ ret = NoResult
    /\ pc = "call"
    /\ AppIdle

CheckAchievements ==
    /\ Called("check_achievements")
    /\ ret' = check_achievements(args.metrics, args.already_earned)
    /\ pc' = "return"
    /\ UNCHANGED <<fn, args, appvars>>

NextBadges == CheckAchievements

SpecBadges == InitBadges /\ [][NextBadges]_vars

\* the metric as the claim reads it: 0 when missing or null
MetricOrZero(metrics, key) ==
    IF key \notin DOMAIN metrics THEN 0
    ELSE IF metrics[key].tag = "num" THEN metrics[key].num ELSE 0

\* the rules that qualify: not yet earned and metric >= threshold
QualifyingRules(metrics, already_earned) ==
    {i \in DOMAIN BADGE_CRITERIA :
        /\ BADGE_CRITERIA[i].badge_type \notin already_earned
        /\ MetricOrZero(metrics, BADGE_CRITERIA[i].key) >= BADGE_CRITERIA[i].threshold}

RuleIndex(badge) == CHOOSE i \in DOMAIN BADGE_CRITERIA : BADGE_CRITERIA[i].badge_type = badge

\* C8: check_achievements returns exactly the badges of the 8-rule table
\* that are not already earned and whose metric (missing or null counting
\* as 0) is >= the rule's threshold, each once and in table order; the
\* result never holds an already-earned badge.
C8_CheckAchievements ==
    Returned("check_achievements") =>
        /\ SetOf(ret) = {BADGE_CRITERIA[i].badge_type :
                             i \in QualifyingRules(args.metrics, args.already_earned)}
        /\ \A a, b \in DOMAIN ret : a < b => RuleIndex(ret[a]) < RuleIndex(ret[b])
        /\ SetOf(ret) \cap args.already_earned = {}

\* metrics {days_logged: 75} with nothing earned yields first_step and
\* 75_hard_complete
C8_Witness ==
    /\ Returned("check_achievements")
    /\ args.metrics = [k \in {"days_logged"} |-> Num(75)]
    /\ args.already_earned = {}
    /\ ret = <<"first_step", "75_hard_complete">>

\* a badge that qualifies again is left out because it is already earned
C8_WitnessEarned ==
    /\ Returned("check_achievements")
    /\ "week_warrior" \in args.already_earned
    /\ MetricOrZero(args.metrics, "streak") >= 30
    /\ "month_master" \in SetOf(ret)
    /\ "week_warrior" \notin SetOf(ret)

(***************************************************************************)
(* Metrics and personal records (src/gamification.py).  A log is a row of  *)
(* the store: every column is there, a column without a value is None.     *)
(* pd.DataFrame(logs) gives a column that holds numbers and None the float *)
(* type, in which None is NaN; a column with no number keeps None.         *)
(***************************************************************************)
NumericColumns ==
    {"workout_1_duration", "workout_2_duration", "water_intake", "reading_time"}

\* the column becomes a float column: it holds a number and nothing but
\* numbers, NaN and None
FloatColumn(logs, key) ==
    /\ \E i \in DOMAIN logs : logs[i][key].tag \in {"num", "NaN"}
    /\ \A i \in DOMAIN logs : logs[i][key].tag \in {"num", "NaN", "None"}

\* pd.to_datetime(df["log_date"]).dt.date of one value
PdDate(d) ==
    CASE d.kind = "date" -> d.day
      [] d.kind = "datetime" -> d.secs \div 86400
      [] OTHER -> d.day

\* df = pd.DataFrame(logs); df["log_date"] = pd.to_datetime(...).dt.date
DataFrame(logs) ==
    [i \in DOMAIN logs |->
        [k \in DOMAIN logs[i] |->
            IF k = "log_date" THEN PdDate(logs[i][k])
            ELSE IF k \in NumericColumns /\ FloatColumn(logs, k) /\ logs[i][k].tag = "None"
                 THEN NaN
                 ELSE logs[i][k]]]

\* pd.to_numeric(value, errors="coerce") then fillna(0)
ToNumericFillna(v) == IF v.tag = "num" THEN v.num ELSE 0

RECURSIVE SumSeq(_)
SumSeq(xs) == IF xs = <<>> THEN 0 ELSE Head(xs) + SumSeq(Tail(xs))

\* df.sort_values("log_date"): the rows in ascending date order
SortValues(df) ==
    LET days == SortedAsc({df[i].log_date : i \in DOMAIN df})
    IN  [j \in DOMAIN days |-> df[CHOOSE i \in DOMAIN df : df[i].log_date = days[j]]]

\* the loop over df_sorted["full"], from position i on
RECURSIVE full_streak_loop(_, _, _, _)
full_streak_loop(flags, i, current, full_streak) ==
    IF i > Len(flags) THEN full_streak
    ELSE IF flags[i]
         THEN full_streak_loop(flags, i + 1, current + 1,
                               IF current + 1 > full_streak THEN current + 1 ELSE full_streak)
         ELSE full_streak_loop(flags, i + 1, 0, full_streak)

\* the scan with the run also broken by a calendar gap between two rows
RECURSIVE full_streak_calendar_loop(_, _, _, _)
full_streak_calendar_loop(rows, i, current, best) ==
    IF i > Len(rows) THEN best
    ELSE IF completion_score(rows[i])
         THEN LET run == IF i > 1 /\ rows[i].log_date - rows[i - 1].log_date = 1
                         THEN current + 1 ELSE 1
              IN  full_streak_calendar_loop(rows, i + 1, run,
                                            IF run > best THEN run ELSE best)
         ELSE full_streak_calendar_loop(rows, i + 1, 0, best)

full_streak_calendar(df) == full_streak_calendar_loop(SortValues(df), 1, 0, 0)

\* full_streak of get_metrics_for_badges: df["full"], then the scan of the
\* date-sorted rows
full_streak(df) ==
    LET full == [i \in DOMAIN df |-> completion_score(df[i])]
    IN  IF \A i \in DOMAIN full : ~full[i] THEN 0
        ELSE LET df_sorted == SortValues(df)
                 flags == [i \in DOMAIN df_sorted |-> completion_score(df_sorted[i])]
             IN  full_streak_loop(flags, 1, 0, 0)

\* the number of rows of the frame that completion_score accepts
FullCount(df) == Cardinality({i \in DOMAIN df : completion_score(df[i])})

get_metrics_for_badges(logs, today) ==
    IF logs = <<>>
    THEN [days_logged |-> 0, streak |-> 0, total_water_L |-> 0,
          total_reading_min |-> 0, total_workout_min |-> 0,
          full_completion_days |-> 0, full_completion_streak |-> 0]
    ELSE LET df == DataFrame(logs)
             log_dates == [i \in DOMAIN df |-> df[i].log_date]
         IN  [days_logged |-> Len(df),
              streak |-> compute_streak(log_dates, today),
              total_water_L |->
                  SumSeq([i \in DOMAIN df |-> ToNumericFillna(df[i].water_intake)]),
              total_reading_min |->
                  SumSeq([i \in DOMAIN df |-> ToNumericFillna(df[i].reading_time)]),
              total_workout_min |->
                  SumSeq([i \in DOMAIN df |->
                             ToNumericFillna(df[i].workout_1_duration)
                                 + ToNumericFillna(df[i].workout_2_duration)]),
              full_completion_days |-> FullCount(df),
              full_completion_streak |-> full_streak(df)]

get_personal_records(logs) ==
    IF logs = <<>>
    THEN [best_streak |-> 0, max_water_L |-> 0, max_workout_min |-> 0,
          max_reading_min |-> 0, total_days |-> 0, full_completion_days |-> 0]
    ELSE LET df == DataFrame(logs)
             log_dates == [i \in DOMAIN df |-> df[i].log_date]
         IN  [best_streak |-> _longest_streak_all(log_dates),
              max_water_L |->
                  MaxOf({ToNumericFillna(df[i].water_intake) : i \in DOMAIN df}),
              max_workout_min |->
                  MaxOf({ToNumericFillna(df[i].workout_1_duration)
                             + ToNumericFillna(df[i].workout_2_duration) : i \in DOMAIN df}),
              max_reading_min |->
                  MaxOf({ToNumericFillna(df[i].reading_time) : i \in DOMAIN df}),
              total_days |-> Len(df),
              full_completion_days |-> FullCount(df)]

\* the bundle as check_achievements reads it; the water total, held in
\* tenths of a litre, is compared with a threshold in whole litres
MetricsForCheck(bundle) ==
    [k \in DOMAIN bundle |->
        IF k = "total_water_L" THEN Num(bundle[k] \div 10) ELSE Num(bundle[k])]

\* the badges a Dashboard load finds newly earned
\* (metrics_for_badges = get_metrics_for_badges(logs);
\*  newly = check_achievements(metrics_for_badges, already_earned))
newly_earned_badges(logs, today, already_earned) ==
    check_achievements(MetricsForCheck(get_metrics_for_badges(logs, today)),
                       already_earned)


(***************************************************************************)
(* Logs handed to the metrics: newest first, at most one row for each of   *)
(* the days 0..MaxMetricDay, each row one of four kinds.                   *)
(***************************************************************************)
MaxMetricDay == 4
MaxShortLogs == 2

\* both workouts, 3.0 L, 10 minutes
FullRow(day) ==
    [log_date |-> DateValue(day),
     workout_1 |-> Str("Run"), workout_1_duration |-> Num(30),
     workout_2 |-> Str("Yoga"), workout_2_duration |-> Num(20),
     water_intake |-> Num(30), reading_time |-> Num(10)]

\* one workout, 2.0 L, 5 minutes
LightRow(day) ==
    [log_date |-> DateValue(day),
     workout_1 |-> Str("Run"), workout_1_duration |-> Num(30),
     workout_2 |-> PyNone, workout_2_duration |-> PyNone,
     water_intake |-> Num(20), reading_time |-> Num(5)]

\* no workout, 3.5 L, 15 minutes
RestRow(day) ==
    [log_date |-> DateValue(day),
     workout_1 |-> PyNone, workout_1_duration |-> PyNone,
     workout_2 |-> PyNone, workout_2_duration |-> PyNone,
     water_intake |-> Num(35), reading_time |-> Num(15)]

\* a row saved with nothing filled in
BlankRow(day) ==
    [log_date |-> DateValue(day),
     workout_1 |-> PyNone, workout_1_duration |-> PyNone,
     workout_2 |-> PyNone, workout_2_duration |-> PyNone,
     water_intake |-> PyNone, reading_time |-> PyNone]

RowKinds == {"full", "light", "rest", "blank"}

RowOf(kind, day) ==
    CASE kind = "full" -> FullRow(day)
      [] kind = "light" -> LightRow(day)
      [] kind = "rest" -> RestRow(day)
      [] OTHER -> BlankRow(day)

\* the rows of a day-to-kind choice, newest day first
LogsOf(choice) ==
    LET days == SortedDesc({d \in DOMAIN choice : choice[d] # "none"})
    IN  [i \in DOMAIN days |-> RowOf(choice[days[i]], days[i])]

MetricLogs == {LogsOf(c) : c \in [0..MaxMetricDay -> RowKinds \cup {"none"}]}

ShortMetricLogs == {l \in MetricLogs : Len(l) <= MaxShortLogs}

DatesOf(logs) == [i \in DOMAIN logs |-> logs[i].log_date.day]

MetricTodays == {MaxMetricDay, MaxMetricDay + 1}

MetricsCalls ==
    {[f |-> "get_metrics_for_badges", a |-> [logs |-> l, today |-> t]] :
        l \in MetricLogs, t \in MetricTodays}
    \cup {[f |-> "get_personal_records", a |-> [logs |-> l]] : l \in MetricLogs}
    \cup {[f |-> "newly_earned_badges",
           a |-> [logs |-> l, today |-> MaxMetricDay, already_earned |-> e]] :
             l \in ShortMetricLogs, e \in {{}, {"first_step"}}}
    \cup {[f |-> "calculate_xp", a |-> [logs |-> l, full_completion_count |-> c]] :
             l \in ShortMetricLogs, c \in 0..MaxFullCount}
    \cup {[f |-> "compute_streak", a |-> [log_dates |-> DatesOf(l), today |-> t]] :
             l \in ShortMetricLogs, t \in MetricTodays}
    \cup {[f |-> "longest_streak_in_range",
           a |-> [log_dates |-> DatesOf(l), from_date |-> 0, to_date |-> t]] :
             l \in ShortMetricLogs, t \in MetricTodays}

InitMetrics ==
    /\ \E c \in MetricsCalls : fn = c.f /\ args = c.a
    /\ ret = NoResult
    /\ pc = "call"
    /\ AppIdle

GetMetricsForBadges ==
    /\ Called("get_metrics_for_badges")
    /\ ret' = get_metrics_for_badges(args.logs, args.today)
    /\ pc' = "return"
    /\ UNCHANGED <<fn, args, appvars>>

GetPersonalRecords ==
    /\ Called("get_personal_records")
    /\ ret' = get_personal_records(args.logs)
    /\ pc' = "return"
    /\ UNCHANGED <<fn, args, appvars>>

NewlyEarnedBadges ==
    /\ Called("newly_earned_badges")
    /\ ret' = newly_earned_badges(args.logs, args.today, args.already_earned)
    /\ pc' = "return"
    /\ UNCHANGED <<fn, args, appvars>>

NextMetrics ==
    \/ GetMetricsForBadges
    \/ GetPersonalRecords
    \/ NewlyEarnedBadges
    \/ CalculateXp
    \/ ComputeStreak
    \/ LongestStreakInRange

SpecMetrics == InitMetrics /\ [][NextMetrics]_vars


ZeroMetrics ==
    [days_logged |-> 0, streak |-> 0, total_water_L |-> 0,
     total_reading_min |-> 0, total_workout_min |-> 0,
     full_completion_days |-> 0, full_completion_streak |-> 0]

ZeroRecords ==
    [best_streak |-> 0, max_water_L |-> 0, max_workout_min |-> 0,
     max_reading_min |-> 0, total_days |-> 0, full_completion_days |-> 0]

\* C14: on an empty log list every aggregate returns its zero default:
\* calculate_xp gives 0 for any full-completion count, compute_streak and
\* longest_streak_in_range give 0, get_metrics_for_badges and
\* get_personal_records give all-zero bundles, and check_achievements on
\* those zero metrics gives the empty list.
C14_EmptyDefaults ==
    /\ (Returned("calculate_xp") /\ args.logs = <<>>) => ret = 0
    /\ (Returned("compute_streak") /\ args.log_dates = <<>>) => ret = 0
    /\ (Returned("longest_streak_in_range") /\ args.log_dates = <<>>) => ret = 0
    /\ (Returned("get_metrics_for_badges") /\ args.logs = <<>>) => ret = ZeroMetrics
    /\ (Returned("get_personal_records") /\ args.logs = <<>>) => ret = ZeroRecords
    /\ (Returned("newly_earned_badges") /\ args.logs = <<>>) => ret = <<>>

C14_Witness ==
    /\ Returned("calculate_xp")
    /\ args.logs = <<>>
    /\ args.full_completion_count > 0
    /\ ret = 0

C14_WitnessBadges ==
    /\ Returned("newly_earned_badges")
    /\ args.logs = <<>>
    /\ args.already_earned = {}
    /\ ret = <<>>

\* the row of the frame for a logged day, and its completion flag
FrameRowOn(logs, day) ==
    LET df == DataFrame(logs)
    IN  df[CHOOSE i \in DOMAIN df : df[i].log_date = day]

FlagOn(logs, day) == completion_score(FrameRowOn(logs, day))

\* the largest number of logged days between two logged days, ends
\* included, such that every logged day between them has the flag
LongestFlaggedBlock(logs) ==
    LET logged == LoggedDays(logs)
    IN  MaxOf({0} \cup
              {Cardinality({d \in logged : a <= d /\ d <= b}) :
                  <<a, b>> \in {p \in logged \X logged :
                                   /\ p[1] <= p[2]
                                   /\ \A d \in logged :
                                          (p[1] <= d /\ d <= p[2]) => FlagOn(logs, d)}})

\* C18: get_metrics_for_badges computes full_completion_streak as the
\* longest run of records adjacent in date-sorted order that each have the
\* completion flag true; unlogged days between two records do not break the
\* run, a logged record with the flag false does.
C18_FullStreakRowOrder ==
    Returned("get_metrics_for_badges") =>
        ret.full_completion_streak = LongestFlaggedBlock(args.logs)

\* two full days with only unlogged days between them count as a run of 2
C18_Witness ==
    /\ Returned("get_metrics_for_badges")
    /\ args.logs = <<FullRow(3), FullRow(0)>>
    /\ ret.full_completion_streak = 2

\* a logged day that is not full between two full days resets the run
C18_WitnessReset ==
    /\ Returned("get_metrics_for_badges")
    /\ args.logs = <<FullRow(2), LightRow(1), FullRow(0)>>
    /\ ret.full_completion_streak = 1


(***************************************************************************)
(* The store (src/database.py).  Every function runs one SQL statement in  *)
(* a transaction of its own, so each call is one atomic step.              *)
(***************************************************************************)
\* INSERT INTO daily_logs, without the ON CONFLICT clause
upsert_log_insert_only(rows, id, user_id, log_date, values) ==
    rows \cup {[id |-> id, user_id |-> user_id, log_date |-> log_date,
                workout_1 |-> PyOr(values.workout_1, PyNone),
                workout_1_duration |-> values.workout_1_duration,
                workout_2 |-> PyOr(values.workout_2, PyNone),
                workout_2_duration |-> values.workout_2_duration,
                water_intake |-> values.water_intake,
                reading_time |-> values.reading_time]}

\* INSERT INTO daily_logs ... ON CONFLICT (user_id, log_date) DO UPDATE SET
\* ...: the rows of the table after the statement; id is the value the
\* statement drew from the id sequence
upsert_log(rows, id, user_id, log_date, values) ==
    LET conflict == {r \in rows : r.user_id = user_id /\ r.log_date = log_date}
    IN  IF conflict = {}
        THEN rows \cup {[id |-> id, user_id |-> user_id, log_date |-> log_date,
                         workout_1 |-> PyOr(values.workout_1, PyNone),
                         workout_1_duration |-> values.workout_1_duration,
                         workout_2 |-> PyOr(values.workout_2, PyNone),
                         workout_2_duration |-> values.workout_2_duration,
                         water_intake |-> values.water_intake,
                         reading_time |-> values.reading_time]}
        ELSE (rows \ conflict) \cup
             {[r EXCEPT !.workout_1 = PyOr(values.workout_1, PyNone),
                        !.workout_1_duration = values.workout_1_duration,
                        !.workout_2 = PyOr(values.workout_2, PyNone),
                        !.workout_2_duration = values.workout_2_duration,
                        !.water_intake = values.water_intake,
                        !.reading_time = values.reading_time] : r \in conflict}

\* the row as the cursor returns it: a dict with a date object
RowDict(r) ==
    [log_date |-> DateValue(r.log_date),
     workout_1 |-> r.workout_1, workout_1_duration |-> r.workout_1_duration,
     workout_2 |-> r.workout_2, workout_2_duration |-> r.workout_2_duration,
     water_intake |-> r.water_intake, reading_time |-> r.reading_time]

\* ORDER BY log_date DESC: the latest row first (ties by id)
RECURSIVE OrderByDateDesc(_)
OrderByDateDesc(rows) ==
    IF rows = {} THEN <<>>
    ELSE LET first == CHOOSE r \in rows :
                          \A q \in rows :
                              \/ q.log_date < r.log_date
                              \/ q.log_date = r.log_date /\ q.id >= r.id
         IN  <<first>> \o OrderByDateDesc(rows \ {first})

\* the SELECT without WHERE user_id = %s
get_logs_for_user_all(rows, user_id, from_date, to_date, limit) ==
    LET found == OrderByDateDesc({r \in rows : /\ r.log_date >= from_date
                                               /\ r.log_date <= to_date})
        n == IF Len(found) < limit THEN Len(found) ELSE limit
    IN  [i \in 1..n |-> RowDict(found[i])]

\* SELECT ... FROM daily_logs WHERE user_id = %s AND log_date >= %s AND
\* log_date <= %s ORDER BY log_date DESC LIMIT %s
get_logs_for_user(rows, user_id, from_date, to_date, limit) ==
    LET found == OrderByDateDesc({r \in rows : /\ r.user_id = user_id
                                               /\ r.log_date >= from_date
                                               /\ r.log_date <= to_date})
        n == IF Len(found) < limit THEN Len(found) ELSE limit
    IN  [i \in 1..n |-> RowDict(found[i])]

\* the UPDATE with the level column left out
update_user_xp_only(table, user_id, xp, level) ==
    [u \in DOMAIN table |->
        IF u = user_id THEN [xp |-> xp, level |-> table[u].level] ELSE table[u]]

\* the UPDATE with the XP added to the stored XP
update_user_xp_level_add(table, user_id, xp, level) ==
    [u \in DOMAIN table |->
        IF u = user_id THEN [xp |-> table[u].xp + xp, level |-> level] ELSE table[u]]

\* UPDATE users SET xp = %s, level = %s WHERE id = %s
update_user_xp_level(table, user_id, xp, level) ==
    [u \in DOMAIN table |->
        IF u = user_id THEN [xp |-> xp, level |-> level] ELSE table[u]]

\* SELECT ... FROM achievements WHERE user_id = %s
get_achievements_for_user(rows, user_id) == {r \in rows : r.user_id = user_id}

\* INSERT INTO achievements, without the ON CONFLICT clause
insert_achievement_always(rows, user_id, badge_type) ==
    LET row == [id |-> Cardinality(rows) + 1,
                user_id |-> user_id, badge_type |-> badge_type]
    IN  [rows |-> rows \cup {row}, returned |-> TRUE]

\* the statement with the user's earlier badges replaced by the new one
insert_achievement_latest(rows, user_id, badge_type) ==
    LET row == [id |-> Cardinality(rows) + 1,
                user_id |-> user_id, badge_type |-> badge_type]
    IN  [rows |-> {r \in rows : r.user_id # user_id} \cup {row}, returned |-> TRUE]

\* INSERT INTO achievements (user_id, badge_type) ... ON CONFLICT (user_id,
\* badge_type) DO NOTHING RETURNING ...: the rows of the table after the
\* statement and whether fetchone() gave a row (None otherwise); the new
\* row takes a fresh id
insert_achievement(rows, user_id, badge_type) ==
    IF \E r \in rows : r.user_id = user_id /\ r.badge_type = badge_type
    THEN [rows |-> rows, returned |-> FALSE]
    ELSE [rows |-> rows \cup {[id |-> Cardinality(rows) + 1,
                               user_id |-> user_id, badge_type |-> badge_type]},
          returned |-> TRUE]


(***************************************************************************)
(* The Daily Tracker and Dashboard pages.  A session runs one page script  *)
(* at a time; the scripts of different sessions interleave between store   *)
(* calls.  The Dashboard run is cut at its store calls: get_logs_for_user, *)
(* update_user_xp_level, get_achievements_for_user, and one                *)
(* insert_achievement for each newly earned badge.                         *)
(***************************************************************************)
MaxAppDay == 1
MaxSaves == 3
MaxLoads == 2
LOG_WINDOW_DAYS == 365
LOG_LIMIT == 400

\* date.today(): the last day of the window the model covers
AppToday == MaxAppDay

AppDays == 0..MaxAppDay

\* what the user typed into the form: two long workouts, 4.0 L, 30 min
OverForm ==
    [workout_1 |-> "Run", workout_1_duration |-> 300,
     workout_2 |-> " Lift", workout_2_duration |-> 300,
     water_intake |-> 40, reading_time |-> 30]

\* one workout, 2.0 L, 5 min; the second workout field holds a blank
LightForm ==
    [workout_1 |-> "Run", workout_1_duration |-> 30,
     workout_2 |-> " ", workout_2_duration |-> 0,
     water_intake |-> 20, reading_time |-> 5]

\* no workout, 3.5 L, 15 min
RestForm ==
    [workout_1 |-> "", workout_1_duration |-> 0,
     workout_2 |-> "", workout_2_duration |-> 0,
     water_intake |-> 35, reading_time |-> 15]

Forms == {OverForm, LightForm, RestForm}

\* text.strip()
Strip(text) ==
    CASE text = " " -> ""
      [] text = " Lift" -> "Lift"
      [] text = " ben " -> "ben"
      [] OTHER -> text

\* text.strip() or None
StripOrNone(text) == IF Strip(text) = "" THEN PyNone ELSE Str(Strip(text))

\* number if number else None
NumberOrNone(number) == IF number # 0 THEN Num(number) ELSE PyNone

\* the keyword arguments of the upsert_log call of the Save button
SavedValues(form) ==
    [workout_1 |-> StripOrNone(form.workout_1),
     workout_1_duration |-> NumberOrNone(form.workout_1_duration),
     workout_2 |-> StripOrNone(form.workout_2),
     workout_2_duration |-> NumberOrNone(form.workout_2_duration),
     water_intake |-> NumberOrNone(form.water_intake),
     reading_time |-> NumberOrNone(form.reading_time)]

\* the record of insert_achievement calls after one more call
RecordCall(calls, user_id, badge_type, returned) ==
    LET old == {c \in calls : c.user_id = user_id /\ c.badge_type = badge_type}
        before == IF old = {}
                  THEN [user_id |-> user_id, badge_type |-> badge_type,
                        calls |-> 0, rows |-> 0]
                  ELSE CHOOSE c \in old : TRUE
    IN  (calls \ old) \cup
        {[before EXCEPT !.calls = @ + 1,
                        !.rows = IF returned THEN @ + 1 ELSE @]}

(***************************************************************************)
(* Users and login (src/app.py, src/auth.py, src/database.py).             *)
(***************************************************************************)
\* fetchone() when no row matches
DisplayName(u) ==
    CASE u = "asha" -> "Asha K"
      [] u = "ben" -> "Ben"
      [] OTHER -> u

PasswordOf(u) ==
    CASE u = "asha" -> "hard75"
      [] OTHER -> "ben-pw"

\* bcrypt: a hash that only its own password verifies
hash_password(password) == [bcrypt |-> password]
verify_password(password, password_hash) == password_hash = [bcrypt |-> password]

\* the row of table users of user u
UserRecord(u) ==
    [id |-> u, username |-> u, display_name |-> DisplayName(u),
     password_hash |-> hash_password(PasswordOf(u))]

\* SELECT ... FROM users WHERE username = %s
get_user_by_username(username) ==
    IF username \in Users THEN UserRecord(username) ELSE NoRow

\* the session slots of a logged-in user
LoggedInAs(u) ==
    [user |-> UserRecord(u), user_id |-> u, display_name |-> DisplayName(u)]

\* login_form with only the user slot set on success
login_form_user_only(state, username, password) ==
    IF username = "" \/ password = ""
    THEN [state |-> state, shown |-> "error"]
    ELSE LET user == get_user_by_username(Strip(username))
         IN  IF user # NoRow /\ verify_password(password, user.password_hash)
             THEN [state |-> [state EXCEPT !.user = user], shown |-> "rerun"]
             ELSE [state |-> state, shown |-> "error"]

\* login_form, the submitted form: the session slots after it and what the
\* run ends with (st.error or st.rerun)
login_form(state, username, password) ==
    IF username = "" \/ password = ""
    THEN [state |-> state, shown |-> "error"]
    ELSE LET user == get_user_by_username(Strip(username))
         IN  IF user # NoRow /\ verify_password(password, user.password_hash)
             THEN [state |-> [user |-> user, user_id |-> user.id,
                              display_name |-> user.display_name],
                   shown |-> "rerun"]
             ELSE [state |-> state, shown |-> "error"]

\* the Log out button: the three slots set to None
log_out(state) ==
    [user |-> NoRow, user_id |-> Unset, display_name |-> Unset]

\* ensure_logged_in that lets every session through
ensure_logged_in_open(state) == TRUE

\* ensure_logged_in: TRUE when the page goes on, FALSE when it stops
\* (not st.session_state.get("user_id"))
ensure_logged_in(state) == state.user_id # Unset /\ state.user_id # ""

\* the store calls made without a user, after a call for user_id
NoteCall(calls, name, user_id) ==
    IF user_id = Unset THEN calls \cup {name} ELSE calls

\* a session whose page stopped at ensure_logged_in, or shows a login error
StoppedSession == [IdleSession("") EXCEPT !.at = "stopped"]
ErrorSession == [IdleSession("") EXCEPT !.at = "error"]

\* no page script of the session is between two store calls
NotRunning(s) == session[s].at \in {"idle", "stopped", "error"}

\* what is typed into the login form
Usernames == {"", "asha", " ben ", "carl"}
Passwords == {"", "hard75", "ben-pw"}

\* session s1 belongs to asha; s2 to asha too, or to ben
SessionUsers == {[s \in Sessions |-> IF s = "s1" THEN "asha" ELSE u] : u \in Users}

\* every session logged in, nothing stored yet
InitApp ==
    /\ StoreInit
    /\ session = [s \in Sessions |-> IdleSession("")]
    /\ \E su \in SessionUsers : session_state = [s \in Sessions |-> LoggedInAs(su[s])]
    /\ fn = ""
    /\ args = <<>>
    /\ ret = NoResult
    /\ pc = "idle"

\* Daily Tracker, Save: ensure_logged_in, then upsert_log with the form's
\* values
TrackerSave(s) ==
    /\ NotRunning(s)
    /\ log_id_seq < MaxSaves
    /\ IF ensure_logged_in(session_state[s])
       THEN LET user_id == session_state[s].user_id IN
            /\ \E log_date \in AppDays, form \in Forms :
                   daily_logs' = upsert_log(daily_logs, log_id_seq + 1, user_id,
                                            log_date, SavedValues(form))
            /\ log_id_seq' = log_id_seq + 1
            /\ anonymous_calls' = NoteCall(anonymous_calls, "upsert_log", user_id)
            /\ session' = [session EXCEPT ![s] = IdleSession("")]
       ELSE /\ session' = [session EXCEPT ![s] = StoppedSession]
            /\ UNCHANGED <<daily_logs, log_id_seq, anonymous_calls>>
    /\ UNCHANGED <<users, achievements, insert_calls, page_loads, session_state>>
    /\ UNCHANGED <<fn, args, ret, pc>>

\* Dashboard, from the start to the XP and level: ensure_logged_in,
\* get_logs_for_user, stop if there is no log, else calculate_xp and
\* get_level
DashboardLoad(s) ==
    /\ NotRunning(s)
    /\ page_loads < MaxLoads
    /\ page_loads' = page_loads + 1
    /\ IF ensure_logged_in(session_state[s])
       THEN LET user_id == session_state[s].user_id
                logs == get_logs_for_user(daily_logs, user_id,
                                          AppToday - LOG_WINDOW_DAYS, AppToday, LOG_LIMIT)
                total_xp == calculate_xp(logs, FullCount(DataFrame(logs)))
            IN  /\ anonymous_calls' =
                       NoteCall(anonymous_calls, "get_logs_for_user", user_id)
                /\ session' = [session EXCEPT ![s] =
                       IF logs = <<>> THEN IdleSession("")
                       ELSE [user_id |-> user_id, at |-> "xp", logs |-> logs,
                             total_xp |-> total_xp,
                             level_num |-> get_level(total_xp)[1], newly |-> <<>>]]
       ELSE /\ session' = [session EXCEPT ![s] = StoppedSession]
            /\ UNCHANGED anonymous_calls
    /\ UNCHANGED <<daily_logs, log_id_seq, users, achievements, insert_calls,
                   session_state>>
    /\ UNCHANGED <<fn, args, ret, pc>>

\* Dashboard: update_user_xp_level(user_id, total_xp, level_num)
DashboardUpdateXp(s) ==
    /\ session[s].at = "xp"
    /\ users' = update_user_xp_level(users, session[s].user_id,
                                     session[s].total_xp, session[s].level_num)
    /\ session' = [session EXCEPT ![s].at = "badges"]
    /\ UNCHANGED <<daily_logs, log_id_seq, achievements, insert_calls, page_loads,
                   session_state, anonymous_calls>>
    /\ UNCHANGED <<fn, args, ret, pc>>

\* Dashboard: get_metrics_for_badges, get_achievements_for_user and
\* check_achievements; the run ends here when no badge is newly earned
DashboardCheckBadges(s) ==
    /\ session[s].at = "badges"
    /\ LET earned == get_achievements_for_user(achievements, session[s].user_id)
           already_earned == {e.badge_type : e \in earned}
           newly == check_achievements(
                        MetricsForCheck(get_metrics_for_badges(session[s].logs, AppToday)),
                        already_earned)
       IN  session' = [session EXCEPT ![s] =
               IF newly = <<>> THEN IdleSession("")
               ELSE [session[s] EXCEPT !.at = "insert", !.newly = newly]]
    /\ UNCHANGED <<daily_logs, log_id_seq, users, achievements, insert_calls, page_loads,
                   session_state, anonymous_calls>>
    /\ UNCHANGED <<fn, args, ret, pc>>

\* Dashboard: insert_achievement(user_id, bt) for the next badge of newly;
\* the run ends after the last one
DashboardInsert(s) ==
    /\ session[s].at = "insert"
    /\ LET bt == Head(session[s].newly)
           done == insert_achievement(achievements, session[s].user_id, bt)
       IN  /\ achievements' = done.rows
           /\ insert_calls' = RecordCall(insert_calls, session[s].user_id, bt,
                                         done.returned)
    /\ session' = [session EXCEPT ![s] =
           IF Tail(session[s].newly) = <<>> THEN IdleSession("")
           ELSE [session[s] EXCEPT !.newly = Tail(session[s].newly)]]
    /\ UNCHANGED <<daily_logs, log_id_seq, users, page_loads, session_state,
                   anonymous_calls>>
    /\ UNCHANGED <<fn, args, ret, pc>>

NextApp ==
    \E s \in Sessions :
        \/ TrackerSave(s)
        \/ DashboardLoad(s)
        \/ DashboardUpdateXp(s)
        \/ DashboardCheckBadges(s)
        \/ DashboardInsert(s)

SpecApp == InitApp /\ [][NextApp]_vars


\* C12: in every reachable state, under any interleaving of Daily Tracker
\* saves, the daily-log store holds at most one row per (user, log_date).
C12_OneLogPerUserDate ==
    \A r \in daily_logs, q \in daily_logs :
        (r.user_id = q.user_id /\ r.log_date = q.log_date) => r = q

\* two saves of the same user and date have run and one row is stored
C12_Witness ==
    /\ log_id_seq >= 2
    /\ Cardinality(daily_logs) = 1
    /\ \A s \in Sessions : session_state[s].user_id = "asha"

\* C11: a stored badge row (user, badge_type) is present in every later
\* state, whatever saves, edits and Dashboard loads follow.
C11_BadgesPermanent ==
    [][\A r \in achievements : r \in achievements']_vars

\* the total of workout minutes of a user's stored logs
TotalWorkoutMin(user_id) ==
    get_metrics_for_badges(
        get_logs_for_user(daily_logs, user_id, AppToday - LOG_WINDOW_DAYS,
                          AppToday, LOG_LIMIT),
        AppToday).total_workout_min

\* the workout_wonder row is stored although an edit has brought the
\* user's workout total back below 1000 minutes
C11_Witness ==
    \E r \in achievements :
        /\ r.badge_type = "workout_wonder"
        /\ TotalWorkoutMin(r.user_id) < 1000

\* C17: in every reachable state the achievements store holds at most one
\* row per (user, badge_type), and of the insert_achievement calls made for
\* a pair exactly one has returned a row.
C17_OneBadgePerUserType ==
    /\ \A r \in achievements, q \in achievements :
           (r.user_id = q.user_id /\ r.badge_type = q.badge_type) => r = q
    /\ \A c \in insert_calls : c.rows = 1

\* two Dashboard runs have both tried to insert the same badge
C17_Witness ==
    \E c \in insert_calls :
        /\ c.calls = 2
        /\ c.rows = 1
        /\ Cardinality({r \in achievements :
                            r.user_id = c.user_id /\ r.badge_type = c.badge_type}) = 1

\* the logged days with two workouts, at least 4 L and at least 30 minutes
OverachieverDays(logs) ==
    {i \in DOMAIN logs :
        /\ logs[i].workout_1.tag = "str"
        /\ logs[i].workout_2.tag = "str"
        /\ _to_number(logs[i].water_intake, 0) >= 40
        /\ _to_number(logs[i].reading_time, 0) >= 30}

\* C16: a logged day with two workouts, at least 4 L of water and at least
\* 30 minutes of reading adds 30 bonus XP to the total XP of the Dashboard,
\* on top of the per-day, full-day and streak XP.
C16_OverachieverBonus ==
    \A s \in Sessions :
        session[s].at = "xp" =>
            LET logs == session[s].logs
                best == LongestRun(LoggedDays(logs))
            IN  session[s].total_xp =
                    XP_PER_DAY_LOGGED * Len(logs)
                    + XP_PER_FULL_DAY * FullCount(DataFrame(logs))
                    + (IF best >= 7 THEN XP_BONUS_7_STREAK ELSE 0)
                    + (IF best >= 30 THEN XP_BONUS_30_STREAK ELSE 0)
                    + 30 * Cardinality(OverachieverDays(logs))


\* C25: for every log list the bundle of get_metrics_for_badges satisfies
\* full_completion_streak <= full_completion_days <= days_logged, and
\* full_completion_days is the number of records for which
\* completion_score is true.
C25_MetricsBundle ==
    Returned("get_metrics_for_badges") =>
        /\ ret.full_completion_streak <= ret.full_completion_days
        /\ ret.full_completion_days <= ret.days_logged
        /\ ret.full_completion_days =
               Cardinality({i \in DOMAIN args.logs : completion_score(args.logs[i])})

\* the ordering of the three counts alone
C25_CountsOrdered ==
    Returned("get_metrics_for_badges") =>
        /\ ret.full_completion_streak <= ret.full_completion_days
        /\ ret.full_completion_days <= ret.days_logged

\* a day without a workout is counted as full next to a day with workouts
C25_RestDayCounted ==
    /\ Returned("get_metrics_for_badges")
    /\ args.logs = <<FullRow(1), RestRow(0)>>
    /\ ~completion_score(args.logs[2])
    /\ ret.full_completion_days = 2


(***************************************************************************)
(* The battle score of the Leaderboard page (src/pages/3_Leaderboard.py):  *)
(* the first two users of list_users() are compared and the viewer gets a  *)
(* message.                                                                *)
(***************************************************************************)
MaxBoardUsers == 3
MaxBoardDays == 3
MaxBoardStreak == 1

\* main, from list_users() to the message: "ahead" is st.success, "behind"
\* st.warning, "tied" st.info; "stopped" when there are fewer than 2 users
leaderboard_message(users_list, my_id, metrics_a, metrics_b) ==
    IF Len(users_list) < 2 THEN "stopped"
    ELSE LET pts_a == calculate_points(metrics_a)
             pts_b == calculate_points(metrics_b)
             winner_pts == IF pts_a >= pts_b THEN "a" ELSE "b"
             advantage == IF pts_a >= pts_b THEN pts_a - pts_b ELSE pts_b - pts_a
             i_am_a == users_list[1] = my_id
             i_win == \/ winner_pts = "a" /\ i_am_a
                      \/ winner_pts = "b" /\ ~i_am_a
         IN  IF i_win /\ advantage > 0 THEN "ahead"
             ELSE IF ~i_win /\ advantage > 0 THEN "behind"
             ELSE "tied"

\* list_users(): the ids in ascending order
BoardUserLists == {[i \in 1..n |-> i] : n \in 1..MaxBoardUsers}

BoardMetrics ==
    [days_logged : 0..MaxBoardDays,
     streak : 0..MaxBoardStreak,
     full_completion_days : {0},
     total_workout_min : {0},
     total_water_L : {0},
     total_reading_min : {0}]

BoardCalls ==
    {[users_list |-> us, my_id |-> me, metrics_a |-> ma, metrics_b |-> mb] :
        us \in BoardUserLists, me \in 1..MaxBoardUsers,
        ma \in BoardMetrics, mb \in BoardMetrics}

InitLeaderboard ==
    /\ fn = "leaderboard_message"
    /\ args \in {c \in BoardCalls : c.my_id <= Len(c.users_list)}
    /\ ret = NoResult
    /\ pc = "call"
    /\ AppIdle

LeaderboardMessage ==
    /\ Called("leaderboard_message")
    /\ ret' = leaderboard_message(args.users_list, args.my_id,
                                  args.metrics_a, args.metrics_b)
    /\ pc' = "return"
    /\ UNCHANGED <<fn, args, appvars>>

NextLeaderboard == LeaderboardMessage

SpecLeaderboard == InitLeaderboard /\ [][NextLeaderboard]_vars

\* the viewer's points and the other compared user's points
ViewerIsCompared == args.my_id \in {args.users_list[1], args.users_list[2]}
ViewerPoints ==
    IF args.my_id = args.users_list[1]
    THEN calculate_points(args.metrics_a) ELSE calculate_points(args.metrics_b)
OtherPoints ==
    IF args.my_id = args.users_list[1]
    THEN calculate_points(args.metrics_b) ELSE calculate_points(args.metrics_a)

\* C29: on the Leaderboard the viewer is told they are ahead only when the
\* viewer is one of the two compared users and that user's points are
\* strictly greater than the other's, behind only when they are strictly
\* fewer, and tied exactly when the two totals are equal.
C29_ViewerMessage ==
    (Returned("leaderboard_message") /\ ret # "stopped") =>
        /\ ret = "ahead" => (ViewerIsCompared /\ ViewerPoints > OtherPoints)
        /\ ret = "behind" => (ViewerIsCompared /\ ViewerPoints < OtherPoints)
        /\ ret = "tied" <=>
               calculate_points(args.metrics_a) = calculate_points(args.metrics_b)

\* the same, for a viewer who is one of the two compared users
C29_ComparedViewer ==
    (Returned("leaderboard_message") /\ ret # "stopped" /\ ViewerIsCompared) =>
        /\ ret = "ahead" <=> ViewerPoints > OtherPoints
        /\ ret = "behind" <=> ViewerPoints < OtherPoints
        /\ ret = "tied" <=> ViewerPoints = OtherPoints

\* a third user looks at the board while the second user leads
C29_ThirdViewerAhead ==
    /\ Returned("leaderboard_message")
    /\ args.my_id = 3
    /\ calculate_points(args.metrics_a) < calculate_points(args.metrics_b)
    /\ ret = "ahead"


\* C26: in every reachable state the level stored for a user is the level
\* get_level returns for the XP stored for that user.
C26_LevelMatchesXp ==
    \A u \in Users : users[u].level = get_level(users[u].xp)[1]

\* two full days of 60 XP each have brought a user to level 2
C26_Witness ==
    \E u \in Users : users[u].xp = 120 /\ users[u].level = 2

\* two Dashboard runs of the same user hold different XP totals, one of
\* them already written
C26_WitnessConcurrent ==
    /\ session_state["s1"].user_id = session_state["s2"].user_id
    /\ session["s1"].at = "xp"
    /\ session["s2"].at = "badges"
    /\ session["s1"].total_xp # session["s2"].total_xp

\* the for loop over newly: insert_achievement for each badge in turn
RECURSIVE insert_all(_, _, _)
insert_all(rows, user_id, newly) ==
    IF newly = <<>> THEN rows
    ELSE insert_all(insert_achievement(rows, user_id, Head(newly)).rows,
                    user_id, Tail(newly))

\* a whole Dashboard run of user_id with no other step in between: the
\* tables users and achievements after it
dashboard_run(log_rows, user_rows, badge_rows, user_id) ==
    LET logs == get_logs_for_user(log_rows, user_id, AppToday - LOG_WINDOW_DAYS,
                                  AppToday, LOG_LIMIT)
    IN  IF logs = <<>> THEN [users |-> user_rows, achievements |-> badge_rows]
        ELSE LET total_xp == calculate_xp(logs, FullCount(DataFrame(logs)))
                 level_num == get_level(total_xp)[1]
                 earned == get_achievements_for_user(badge_rows, user_id)
                 newly == check_achievements(
                              MetricsForCheck(get_metrics_for_badges(logs, AppToday)),
                              {e.badge_type : e \in earned})
             IN  [users |-> update_user_xp_level(user_rows, user_id, total_xp, level_num),
                  achievements |-> insert_all(badge_rows, user_id, newly)]

\* C21: whatever is stored before it, a Dashboard load followed by a second
\* load of the same user with unchanged logs leaves xp, level and
\* achievements as the first load left them.
C21_SecondLoadChangesNothing ==
    \A u \in Users :
        LET first == dashboard_run(daily_logs, users, achievements, u)
        IN  dashboard_run(daily_logs, first.users, first.achievements, u) = first

\* the stored XP is out of date after an edit and a badge is still to be
\* inserted: the first load changes the store, the second does not
C21_Witness ==
    \E u \in Users :
        LET first == dashboard_run(daily_logs, users, achievements, u)
        IN  /\ users[u].xp > 0
            /\ first.users[u].xp # users[u].xp
            /\ first.achievements # achievements
            /\ dashboard_run(daily_logs, first.users, first.achievements, u) = first

\* the rows of a user in the three tables
OwnRows(u) ==
    [daily_logs |-> {r \in daily_logs : r.user_id = u},
     users |-> users[u],
     achievements |-> {r \in achievements : r.user_id = u}]

\* a step of a page of session s
StepOf(s) ==
    \/ TrackerSave(s)
    \/ DashboardLoad(s)
    \/ DashboardUpdateXp(s)
    \/ DashboardCheckBadges(s)
    \/ DashboardInsert(s)

\* what a Dashboard run of session s has just computed comes from the rows
\* of its own user
ComputedFromOwnRows(s) ==
    LET u == session_state[s].user_id
        logs == get_logs_for_user(OwnRows(u).daily_logs, u,
                                  AppToday - LOG_WINDOW_DAYS, AppToday, LOG_LIMIT)
        total_xp == calculate_xp(logs, FullCount(DataFrame(logs)))
    IN  /\ (session[s].at # "xp" /\ session'[s].at = "xp") =>
               /\ session'[s].logs = logs
               /\ session'[s].total_xp = total_xp
               /\ session'[s].level_num = get_level(total_xp)[1]
        /\ (session[s].at = "badges" /\ session'[s].at = "insert") =>
               session'[s].newly =
                   check_achievements(
                       MetricsForCheck(get_metrics_for_badges(session[s].logs, AppToday)),
                       {e.badge_type : e \in OwnRows(u).achievements})

\* C22: a Dashboard load or Daily Tracker save of user A changes only A's
\* rows in daily_logs, users and achievements, and the XP, level and newly
\* earned badges computed for A are a function of A's rows alone, whatever
\* another user's session does in between.
C22_NoCrossTalk ==
    [][\A s \in Sessions :
           StepOf(s) =>
               /\ \A u \in Users \ {session_state[s].user_id} : OwnRows(u)' = OwnRows(u)
               /\ ComputedFromOwnRows(s)]_vars

\* both users have logs, and their Dashboard runs, one still under way,
\* hold different XP
C22_Witness ==
    /\ session_state["s1"].user_id # session_state["s2"].user_id
    /\ \A u \in Users : OwnRows(u).daily_logs # {}
    /\ session["s2"].at = "insert"
    /\ users["asha"].xp > 0
    /\ users["ben"].xp > 0
    /\ users["asha"].xp # users["ben"].xp


(***************************************************************************)
(* Sessions that log in and out (src/app.py and the sidebar of each page). *)
(* A page run is one script of the session; Log out stops the run under    *)
(* way and the rerun ends at ensure_logged_in.                             *)
(***************************************************************************)
MaxSessionSaves == 2
MaxSessionLoads == 1

\* nobody is logged in, nothing is stored
InitSession ==
    /\ AppIdle
    /\ fn = ""
    /\ args = <<>>
    /\ ret = NoResult
    /\ pc = "idle"

\* app.py, the login form submitted by a session whose user slot is None
Login(s) ==
    /\ NotRunning(s)
    /\ session_state[s].user = NoRow
    /\ \E username \in Usernames, password \in Passwords :
           LET done == login_form(session_state[s], username, password)
           IN  /\ session_state' = [session_state EXCEPT ![s] = done.state]
               /\ session' = [session EXCEPT ![s] =
                      IF done.shown = "error" THEN ErrorSession ELSE IdleSession("")]
    /\ UNCHANGED <<daily_logs, log_id_seq, users, achievements, insert_calls,
                   page_loads, anonymous_calls>>
    /\ UNCHANGED <<fn, args, ret, pc>>

\* app.py, Log out: the rerun shows the login form
HomeLogout(s) ==
    /\ session_state[s].user # NoRow
    /\ session_state' = [session_state EXCEPT ![s] = log_out(@)]
    /\ session' = [session EXCEPT ![s] = IdleSession("")]
    /\ UNCHANGED <<daily_logs, log_id_seq, users, achievements, insert_calls,
                   page_loads, anonymous_calls>>
    /\ UNCHANGED <<fn, args, ret, pc>>

\* Log out in the sidebar of a page, which is drawn after ensure_logged_in;
\* the rerun stops at ensure_logged_in
PageLogout(s) ==
    /\ ensure_logged_in(session_state[s])
    /\ session_state' = [session_state EXCEPT ![s] = log_out(@)]
    /\ session' = [session EXCEPT ![s] =
           IF ensure_logged_in(log_out(session_state[s]))
           THEN IdleSession("") ELSE StoppedSession]
    /\ UNCHANGED <<daily_logs, log_id_seq, users, achievements, insert_calls,
                   page_loads, anonymous_calls>>
    /\ UNCHANGED <<fn, args, ret, pc>>

\* Leaderboard: ensure_logged_in, then list_users and get_logs_for_user of
\* the first two users; the page only reads
LeaderboardView(s) ==
    /\ NotRunning(s)
    /\ IF ensure_logged_in(session_state[s])
       THEN /\ anonymous_calls' =
                   NoteCall(anonymous_calls, "list_users", session_state[s].user_id)
            /\ session' = [session EXCEPT ![s] = IdleSession("")]
       ELSE /\ session' = [session EXCEPT ![s] = StoppedSession]
            /\ UNCHANGED anonymous_calls
    /\ UNCHANGED <<daily_logs, log_id_seq, users, achievements, insert_calls,
                   page_loads, session_state>>
    /\ UNCHANGED <<fn, args, ret, pc>>

\* Challenges: ensure_logged_in, then get_logs_for_user(user_id, limit=10);
\* the page only reads
ChallengesView(s) ==
    /\ NotRunning(s)
    /\ IF ensure_logged_in(session_state[s])
       THEN /\ anonymous_calls' =
                   NoteCall(anonymous_calls, "get_logs_for_user",
                            session_state[s].user_id)
            /\ session' = [session EXCEPT ![s] = IdleSession("")]
       ELSE /\ session' = [session EXCEPT ![s] = StoppedSession]
            /\ UNCHANGED anonymous_calls
    /\ UNCHANGED <<daily_logs, log_id_seq, users, achievements, insert_calls,
                   page_loads, session_state>>
    /\ UNCHANGED <<fn, args, ret, pc>>

\* the Daily Tracker and the Dashboard, a bounded number of times
SessionSave(s) == log_id_seq < MaxSessionSaves /\ TrackerSave(s)
SessionLoad(s) == page_loads < MaxSessionLoads /\ DashboardLoad(s)

NextSession ==
    \E s \in Sessions :
        \/ Login(s)
        \/ HomeLogout(s)
        \/ PageLogout(s)
        \/ SessionSave(s)
        \/ SessionLoad(s)
        \/ DashboardUpdateXp(s)
        \/ DashboardCheckBadges(s)
        \/ DashboardInsert(s)
        \/ LeaderboardView(s)
        \/ ChallengesView(s)

SpecSession == InitSession /\ [][NextSession]_vars


\* the three slots are all None, or all taken from the row of one user
SlotsConsistent(state) ==
    \/ state = LoggedOut
    \/ \E u \in Users : state = LoggedInAs(u)

\* what a submitted login form does to a logged-out session: a known user
\* with their password is logged in, anything else changes nothing
LoginOutcome ==
    \A username \in Usernames, password \in Passwords :
        LET done == login_form(LoggedOut, username, password)
            name == Strip(username)
        IN  IF /\ username # ""
               /\ password # ""
               /\ name \in Users
               /\ password = PasswordOf(name)
            THEN done.state = LoggedInAs(name) /\ done.shown = "rerun"
            ELSE done.state = LoggedOut /\ done.shown = "error"

\* one step seen from session s: a login that ends in st.error changes no
\* slot, a logged-out session that changes has all three slots set, and a
\* logged-in session that changes has all three cleared
SessionStep(s) ==
    /\ (session'[s].at = "error") => (session_state'[s] = session_state[s])
    /\ (session_state[s] = LoggedOut /\ session_state'[s] # LoggedOut) =>
           (\E u \in Users : session_state'[s] = LoggedInAs(u))
    /\ (session_state[s] # LoggedOut /\ session_state'[s] # session_state[s]) =>
           (session_state'[s] = LoggedOut)

\* C27: in every reachable state the slots user, user_id and display_name of
\* a session are all unset or all set from the same user record; a failed
\* login (empty field, unknown username, wrong password) leaves the session
\* unchanged, a successful one sets all three, and Log out clears all three.
C27_SessionSlots ==
    /\ [](LoginOutcome /\ \A s \in Sessions : SlotsConsistent(session_state[s]))
    /\ [][\A s \in Sessions : SessionStep(s)]_vars

\* ben is logged in on s1 (typed with blanks around the name) while a login
\* on s2 has just failed
C27_Witness ==
    /\ session_state["s1"] = LoggedInAs("ben")
    /\ session["s2"].at = "error"
    /\ session_state["s2"] = LoggedOut

\* both sessions have logged in, saved a day and logged out from a page
C27_WitnessLoggedOut ==
    /\ \A s \in Sessions :
           session_state[s] = LoggedOut /\ session[s].at = "stopped"
    /\ {r.user_id : r \in daily_logs} = Users

\* the rows of the three tables belong to users
StoreOwned ==
    /\ \A r \in daily_logs : r.user_id \in Users
    /\ \A r \in achievements : r.user_id \in Users
    /\ DOMAIN users = Users

\* C28: a session with no logged-in user never reads or writes daily logs, XP
\* or achievements through one of the four pages: no store call is made
\* without a user, no page script of a logged-out session is under way, and
\* every stored row belongs to a user; this also after a Log out.
C28_NoAnonymousAccess ==
    /\ anonymous_calls = {}
    /\ StoreOwned
    /\ \A s \in Sessions :
           ~ensure_logged_in(session_state[s]) => NotRunning(s)

\* asha has saved a day and logged out; the page she opened next stopped
\* at ensure_logged_in, while ben's Dashboard run is under way
C28_Witness ==
    /\ \E r \in daily_logs : r.user_id = "asha"
    /\ session_state["s1"] = LoggedOut
    /\ session["s1"].at = "stopped"
    /\ session_state["s2"] = LoggedInAs("ben")
    /\ ~NotRunning("s2")

====
